---------------------------- MODULE Spec2Model ----------------------------
(***************************************************************************)
(* Model of streamlit_app.py: the number normaliser (_try_parse_number),   *)
(* the tolerant comparator (nearly_equal), the two table normalisers       *)
(* (clean_and_prepare, prepare_contract_list) and the comparison loops.    *)
(*                                                                         *)
(* Text is a sequence of one-character strings, so that stripping,         *)
(* replacing, joining and ordering are computed as the code computes them. *)
(* A parsed number is an integer in units of 1/Scale (fixed point): every  *)
(* decimal literal of at most MaxLen characters is exact in those units.   *)
(* The code computes with IEEE doubles: where an operand of fa - fb is a   *)
(* decimal that no double equals, the computed difference may lie just     *)
(* below or just above the decimal difference (1.15 - 0.15 is              *)
(* 0.9999999999999999), and the model takes every such outcome.            *)
(***************************************************************************)
EXTENDS Integers, Sequences, FiniteSets, TLC

VARIABLES
    a, b,          \* the two raw cell values handed to nearly_equal
    pa, pb,        \* the results of _try_parse_number(a), _try_parse_number(b)
    rnd,           \* how the double subtraction fa - fb rounded: -1 | 0 | 1
    res,           \* the result of nearly_equal(a, b, TOL)
    npc,           \* position of the comparator run: "in" | "done"
    cfile,         \* the uploaded contract list: header row and data rows
    ctable,        \* the keyed table prepare_contract_list returns
    cmsgs,         \* the messages prepare_contract_list shows
    cpc,           \* position of the normaliser run: "in" | "done"
    mode,          \* the section chosen: "closings" | "contracts"
    file_test,     \* the uploaded test sheet
    file_prod,     \* the uploaded prod sheet
    df_test,       \* the keyed test table
    df_prod,       \* the keyed prod table
    msgs,          \* the messages shown on the page, in order
    all_keys,      \* the sorted key universe
    common_cols,   \* the sorted compared columns
    results,       \* the report rows built so far, one per key
    compared,      \* the <<key, column>> pairs whose cells were compared
    df_diff,       \* the final diff report
    error,         \* the exception that ended the run, or "none"
    pc,            \* position of the script: "upload" | "prepared" | "loop"
                   \*   | "done" | "stopped" | "crashed"
    cache,         \* st.cache_data: per decorated function, the stored results
    computed,      \* the calls whose function body ran and returned, in order
    ret,           \* the last call of a decorated function and what it got
    ncalls,        \* the number of calls made so far
    df_raw,        \* a closings sheet as read: its physical rows 0, 1, 2, ...
    hcols,         \* df_data.columns after the header reconstruction
    hrows,         \* the rows of df_data
    hpc,           \* position of the header reconstruction: "in" | "done"
    en             \* the English tab run next to the German one: its
                   \*   position, tables, compared columns, rows, report

numVars == <<a, b, pa, pb, rnd, res, npc>>

contractVars == <<cfile, ctable, cmsgs, cpc>>

compareVars ==
    <<mode, file_test, file_prod, df_test, df_prod, msgs, all_keys,
      common_cols, results, compared, df_diff, error, pc>>

cacheVars == <<cache, computed, ret, ncalls>>

headerVars == <<df_raw, hcols, hrows, hpc>>

vars == <<numVars, contractVars, compareVars, cacheVars, headerVars, en>>

----------------------------------------------------------------------------
(* Bounds *)

MaxLen == 3        \* longest text drawn for a
MaxLenB == 2       \* longest text drawn for b
MaxRows == 2       \* most data rows of an uploaded contract list
MaxTestRows == 2   \* most data rows of the test sheet of a comparison
MaxProdRows == 1   \* most data rows of the prod sheet of a comparison
MaxCalls == 3      \* most calls of the decorated functions in one process
MaxDataRows == 1   \* most data rows of a sheet handed to the header reconstruction
MaxPad == 2        \* most characters put before and after a column header

----------------------------------------------------------------------------
(* Text *)

Digits == {"0", "1", "2", "3", "4", "5", "6", "7", "8", "9"}

DigitVal(c) ==
    CASE c = "0" -> 0 [] c = "1" -> 1 [] c = "2" -> 2 [] c = "3" -> 3
      [] c = "4" -> 4 [] c = "5" -> 5 [] c = "6" -> 6 [] c = "7" -> 7
      [] c = "8" -> 8 [] c = "9" -> 9

DigitChar(d) ==
    CASE d = 0 -> "0" [] d = 1 -> "1" [] d = 2 -> "2" [] d = 3 -> "3"
      [] d = 4 -> "4" [] d = 5 -> "5" [] d = 6 -> "6" [] d = 7 -> "7"
      [] d = 8 -> "8" [] d = 9 -> "9"

RECURSIVE Pow10(_)
Pow10(n) == IF n = 0 THEN 1 ELSE 10 * Pow10(n - 1)

Abs(x) == IF x < 0 THEN -x ELSE x

\* str.replace(c, ""): every occurrence of a character of cs is removed
RemoveChars(s, cs) == SelectSeq(s, LAMBDA c : c \notin cs)

\* str.replace(from, to) for single characters
ReplaceChar(s, from, to) ==
    [i \in 1..Len(s) |-> IF s[i] = from THEN to ELSE s[i]]

Whitespace == {" "}

RECURSIVE LStrip(_)
LStrip(s) ==
    IF s # <<>> /\ Head(s) \in Whitespace THEN LStrip(Tail(s)) ELSE s

RECURSIVE RStrip(_)
RStrip(s) ==
    IF s # <<>> /\ s[Len(s)] \in Whitespace
    THEN RStrip(SubSeq(s, 1, Len(s) - 1))
    ELSE s

\* str.strip()
Strip(s) == RStrip(LStrip(s))

\* All texts over the alphabet cs of length at most n
RECURSIVE TextsUpTo(_, _)
TextsUpTo(cs, n) ==
    IF n = 0 THEN {<<>>}
    ELSE LET shorter == TextsUpTo(cs, n - 1)
         IN  shorter \cup {Append(s, c) : s \in shorter, c \in cs}


\* The characters of the model in code point order (str comparison is by
\* code point)
CodeOrder ==
    <<" ", "\"", "%", "'", "+", ",", "-", ".", "/", "0", "1", "2", "3",
      "4", "5", "6", "7", "8", "9", ":", ";", "=", "A", "B", "C", "D",
      "E", "F", "G", "H", "I", "J", "K", "L", "M", "N", "O", "P", "Q",
      "R", "S", "T", "U", "V", "W", "X", "Y", "Z", "[", "]", "_", "a",
      "b", "c", "d", "e", "f", "g", "h", "i", "j", "k", "l", "m", "n",
      "o", "p", "q", "r", "s", "t", "u", "v", "w", "x", "y", "z", "|">>

Ord(c) == CHOOSE i \in 1..Len(CodeOrder) : CodeOrder[i] = c

\* x < y for str
RECURSIVE StrLess(_, _)
StrLess(x, y) ==
    IF y = <<>> THEN FALSE
    ELSE IF x = <<>> THEN TRUE
    ELSE IF Head(x) = Head(y) THEN StrLess(Tail(x), Tail(y))
    ELSE Ord(Head(x)) < Ord(Head(y))

\* sep.join(parts)
RECURSIVE Join(_, _)
Join(sep, parts) ==
    IF parts = <<>> THEN <<>>
    ELSE IF Len(parts) = 1 THEN parts[1]
    ELSE parts[1] \o sep \o Join(sep, Tail(parts))

\* str(n) for an int n >= 0
RECURSIVE NatStr(_)
NatStr(n) ==
    IF n < 10 THEN <<DigitChar(n)>>
    ELSE Append(NatStr(n \div 10), DigitChar(n % 10))

Range(f) == {f[i] : i \in DOMAIN f}

----------------------------------------------------------------------------
(* Raw cell values *)

\* One unit of the parsed numbers is 1/Scale
Scale == Pow10(MaxLen)

None == "None"

NaN == [t |-> "nan", n |-> 0, s |-> <<>>]
Num(x) == [t |-> "num", n |-> x, s |-> <<>>]
Text(s) == [t |-> "str", n |-> 0, s |-> s]
\* a Python bool is the integer 1 or 0
Bool(x) == [t |-> "bool", n |-> IF x THEN Scale ELSE 0, s |-> <<>>]

\* a numpy integer (the LineIndex column)
IntCell(x) == [t |-> "int", n |-> x, s |-> <<>>]

\* pd.isna(val)
IsNa(val) == val.t = "nan"

\* the digits of the fraction f/Scale of a float, without trailing zeros
RECURSIVE FracStr(_, _)
FracStr(f, unit) ==
    IF unit = 1 \/ f = 0 THEN <<>>
    ELSE <<DigitChar(f \div (unit \div 10))>>
             \o FracStr(f % (unit \div 10), unit \div 10)

\* str(x) for a float x = v/Scale
FloatStr(v) ==
    LET m == Abs(v)
        frac == FracStr(m % Scale, Scale)
    IN  (IF v < 0 THEN <<"-">> ELSE <<>>)
            \o NatStr(m \div Scale) \o <<".">>
            \o (IF frac = <<>> THEN <<"0">> ELSE frac)

\* str(val), the cell-wise result of astype(str)
PyStr(val) ==
    CASE val.t = "str" -> val.s
      [] val.t = "nan" -> <<"n", "a", "n">>
      [] val.t = "num" -> FloatStr(val.n)
      [] val.t = "int" -> (IF val.n < 0 THEN <<"-">> ELSE <<>>) \o NatStr(Abs(val.n))
      [] val.t = "bool" -> IF val.n # 0 THEN <<"T", "r", "u", "e">>
                                       ELSE <<"F", "a", "l", "s", "e">>

\* val_test != val_prod for two cell values that are not both missing
PyNotEqual(x, y) ==
    LET number(v) == v.t \in {"num", "int", "bool"}
        value(v) == IF v.t = "int" THEN v.n * Scale ELSE v.n
    IN  IF number(x) /\ number(y) THEN value(x) # value(y)
        ELSE IF x.t = "str" /\ y.t = "str" THEN x.s # y.s
        ELSE TRUE

----------------------------------------------------------------------------
(* float(s) on the text that reaches it: [sign] digits [. digits] with at  *)
(* least one digit.  (Exponents, "inf", "nan" and digit-group underscores  *)
(* need characters that are not in the alphabet of the model.)             *)

Unsigned(s) == IF s # <<>> /\ Head(s) \in {"-", "+"} THEN Tail(s) ELSE s

IsFloatLiteral(s) ==
    LET u == Unsigned(s)
    IN  /\ \A i \in 1..Len(u) : u[i] \in Digits \cup {"."}
        /\ Cardinality({i \in 1..Len(u) : u[i] = "."}) <= 1
        /\ \E i \in 1..Len(u) : u[i] \in Digits

RECURSIVE DigitsVal(_)
DigitsVal(ds) ==
    IF ds = <<>> THEN 0
    ELSE 10 * DigitsVal(SubSeq(ds, 1, Len(ds) - 1)) + DigitVal(ds[Len(ds)])

\* the value of a float literal, in units of 1/Scale
FloatVal(s) ==
    LET u == Unsigned(s)
        dots == {i \in 1..Len(u) : u[i] = "."}
        p == IF dots = {} THEN Len(u) + 1 ELSE CHOOSE i \in dots : TRUE
        ip == SubSeq(u, 1, p - 1)
        fp == SubSeq(u, p + 1, Len(u))
        mag == DigitsVal(ip) * Scale + (DigitsVal(fp) * Scale) \div Pow10(Len(fp))
    IN  IF s # <<>> /\ Head(s) = "-" THEN -mag ELSE mag

----------------------------------------------------------------------------
(* Number normaliser and tolerant comparator *)

TOL == 1

Cleaned == {" ", "€", "%", "'"}

NotParsed == [ok |-> FALSE, val |-> None]

\* (mutant) the decimal-point reading is tried first
_try_parse_number_enFirst(val) ==
    IF IsNa(val) THEN NotParsed
    ELSE IF val.t = "num" THEN [ok |-> TRUE, val |-> val.n]
    ELSE LET s == Strip(PyStr(val))
             s_clean == RemoveChars(s, Cleaned)
             s_de == ReplaceChar(RemoveChars(s_clean, {"."}), ",", ".")
             s_en == RemoveChars(s_clean, {","})
         IN  IF s = <<>> THEN NotParsed
             ELSE IF IsFloatLiteral(s_en)
                  THEN [ok |-> TRUE, val |-> FloatVal(s_en)]
             ELSE IF IsFloatLiteral(s_de)
                  THEN [ok |-> TRUE, val |-> FloatVal(s_de)]
             ELSE NotParsed

_try_parse_number(val) ==
    IF IsNa(val) THEN NotParsed
    ELSE IF val.t = "num" THEN [ok |-> TRUE, val |-> val.n]
    ELSE LET s == Strip(PyStr(val))
             s_clean == RemoveChars(s, Cleaned)
             s_de == ReplaceChar(RemoveChars(s_clean, {"."}), ",", ".")
             s_en == RemoveChars(s_clean, {","})
         IN  IF s = <<>> THEN NotParsed
             ELSE IF IsFloatLiteral(s_de)
                  THEN [ok |-> TRUE, val |-> FloatVal(s_de)]
             ELSE IF IsFloatLiteral(s_en)
                  THEN [ok |-> TRUE, val |-> FloatVal(s_en)]
             ELSE NotParsed

\* a decimal v/Scale is a double exactly when its denominator is a power of 2
RECURSIVE Pow5(_)
Pow5(n) == IF n = 0 THEN 1 ELSE 5 * Pow5(n - 1)

ExactDouble(v) == v % Pow5(MaxLen) = 0

\* the ways fa - fb can round: exact (0), just below (-1), just above (1)
Roundings(fa, fb) ==
    IF fa = fb \/ (ExactDouble(fa) /\ ExactDouble(fb)) THEN {0} ELSE {-1, 0, 1}

RoundingsOf(x, y) ==
    LET px == _try_parse_number(x)
        py == _try_parse_number(y)
    IN  IF px.ok /\ py.ok THEN Roundings(px.val, py.val) ELSE {0}

\* d + r * ulp < tol, for the decimal d and the rounding r
FloatLess(d, r, tol) == d < tol * Scale \/ (d = tol * Scale /\ r < 0)

\* nearly_equal with "<=" in place of "<"
nearly_equal_le(x, y, tol, r) ==
    LET px == _try_parse_number(x)
        py == _try_parse_number(y)
    IN  IF px.ok /\ py.ok
        THEN Abs(px.val - py.val) <= tol * Scale
        ELSE FALSE

\* nearly_equal without abs()
nearly_equal_signed(x, y, tol, r) ==
    LET px == _try_parse_number(x)
        py == _try_parse_number(y)
    IN  IF px.ok /\ py.ok
        THEN px.val - py.val < tol * Scale
        ELSE FALSE

\* nearly_equal(x, y, tol) when the subtraction rounds as r
nearly_equal(x, y, tol, r) ==
    LET px == _try_parse_number(x)
        py == _try_parse_number(y)
    IN  IF px.ok /\ py.ok
        THEN FloatLess(Abs(px.val - py.val), r, tol)
        ELSE FALSE

----------------------------------------------------------------------------
(* Tables.  A DataFrame is its column names, its rows (each a sequence of  *)
(* cells aligned with the columns) and its index (one label per row; the   *)
(* Key after set_index("Key")).  An uploaded sheet is its header row and   *)
(* its data rows.                                                          *)

EmptyFrame == [columns |-> <<>>, rows |-> <<>>, index |-> <<>>]

\* a message on the page (st.error, st.warning, st.success): its kind, its
\* text, the names it lists and, for the missing-column error, the columns
\* of the sheet
Msg(kind, text, list, columns) ==
    [kind |-> kind, text |-> text, list |-> list, columns |-> columns]

\* position of the column named c
ColPos(columns, c) == CHOOSE i \in 1..Len(columns) : columns[i] = c

\* df[c] = df[c].astype(str)
AsStr(rows, pos) ==
    [r \in 1..Len(rows) |-> [rows[r] EXCEPT ![pos] = Text(PyStr(@))]]

\* x < y for tuples of str, compared component by component
RECURSIVE TupleLess(_, _)
TupleLess(x, y) ==
    IF x = <<>> THEN FALSE
    ELSE IF x[1] = y[1] THEN TupleLess(Tail(x), Tail(y))
    ELSE StrLess(x[1], y[1])

\* The stable ascending order of the sort keys: SortPerm(keys)[p] is the
\* position in keys of the element that comes p-th.
SortPerm(keys) ==
    LET n == Len(keys)
        before(j, i) ==
            TupleLess(keys[j], keys[i]) \/ (keys[j] = keys[i] /\ j < i)
        rank(i) == 1 + Cardinality({j \in 1..n : before(j, i)})
    IN  [p \in 1..n |-> CHOOSE i \in 1..n : rank(i) = p]

\* sorted(S) for a set S of str
Sorted(S) ==
    LET rank(x) == 1 + Cardinality({y \in S : StrLess(y, x)})
    IN  [p \in 1..Cardinality(S) |-> CHOOSE x \in S : rank(x) = p]

----------------------------------------------------------------------------
(* Contract list normaliser *)

KeyName == <<"K", "e", "y">>
LineIndexName == <<"L", "i", "n", "e", "I", "n", "d", "e", "x">>

\* the identity column names of the German and the English tab
ContractColsDE ==
    [system_id_col |-> <<"S", "y", "s", "t", "e", "m", "-", "I", "D">>,
     asset_col |-> <<"A", "s", "s", "e", "t", " ", "S", "y", "s", "t", "e", "m", "-", "I", "D">>,
     payment_id_col |-> <<"Z", "a", "h", "l", "u", "n", "g", "s", "-", "I", "D">>,
     option_id_col |-> <<"O", "p", "t", "i", "o", "n", "s", "-", "I", "D">>]

ContractColsEN ==
    [system_id_col |-> <<"S", "y", "s", "t", "e", "m", " ", "I", "D">>,
     asset_col |-> <<"A", "s", "s", "e", "t", " ", "[", "S", "y", "s", "t", "e", "m", " ", "I", "D", "]">>,
     payment_id_col |-> <<"P", "a", "y", "m", "e", "n", "t", " ", "I", "D">>,
     option_id_col |-> <<"O", "p", "t", "i", "o", "n", " ", "I", "D">>]

\* None as a column parameter (no column has the empty name)
NoCol == <<>>

\* .str.strip().str.replace('"', "").str.replace("'", "")
NormalizeColumn(name) ==
    RemoveChars(RemoveChars(Strip(name), {"\""}), {"'"})

\* [c for c in wanted if c not in columns]
MissingFrom(wanted, columns) ==
    SelectSeq(wanted, LAMBDA c : c \notin Range(columns))

\* the fallback scheme with the rows left in sheet order
FallbackKeys_unsorted(columns, rows, system_id_col, asset_col) ==
    LET sp == ColPos(columns, system_id_col)
        ap == ColPos(columns, asset_col)
        cumcount(p) ==
            Cardinality({q \in 1..(p - 1) :
                            /\ rows[q][sp] = rows[p][sp]
                            /\ rows[q][ap] = rows[p][ap]})
    IN  [rows |-> [p \in 1..Len(rows) |-> Append(rows[p], IntCell(cumcount(p) + 1))],
         index |-> [p \in 1..Len(rows) |->
                       rows[p][sp].s \o <<"_">> \o rows[p][ap].s
                           \o <<"_">> \o PyStr(IntCell(cumcount(p) + 1))]]

\* Key and LineIndex of the fallback scheme, for rows whose identity columns
\* are already str: the sorted rows, each with its LineIndex appended, and
\* their keys.
FallbackKeys(columns, rows, system_id_col, asset_col) ==
    LET sp == ColPos(columns, system_id_col)
        ap == ColPos(columns, asset_col)
        others == {i \in 1..Len(columns) : i # sp /\ i # ap}
        other_cols == SelectSeq([i \in 1..Len(columns) |-> i],
                                LAMBDA i : i \in others)
        sort_key(row) ==
            Join(<<"|">>, [k \in 1..Len(other_cols) |-> PyStr(row[other_cols[k]])])
        keys == [r \in 1..Len(rows) |->
                    IF other_cols # <<>>
                    THEN <<rows[r][sp].s, rows[r][ap].s, sort_key(rows[r])>>
                    ELSE <<rows[r][sp].s, rows[r][ap].s>>]
        perm == SortPerm(keys)
        sorted == [p \in 1..Len(rows) |-> rows[perm[p]]]
        cumcount(p) ==
            Cardinality({q \in 1..(p - 1) :
                            /\ sorted[q][sp] = sorted[p][sp]
                            /\ sorted[q][ap] = sorted[p][ap]})
        LineIndex == [p \in 1..Len(rows) |-> cumcount(p) + 1]
    IN  [rows |-> [p \in 1..Len(rows) |-> Append(sorted[p], IntCell(LineIndex[p]))],
         index |-> [p \in 1..Len(rows) |->
                       sorted[p][sp].s \o <<"_">> \o sorted[p][ap].s
                           \o <<"_">> \o PyStr(IntCell(LineIndex[p]))]]

\* the result that keeps the sheet's columns in the empty table
MissingRequiredResult_keepsColumns(missing_required, columns) ==
    [df |-> [columns |-> columns, rows |-> <<>>, index |-> <<>>],
     msgs |-> <<Msg("error", "Erwartete Spalten nicht gefunden",
                    missing_required, columns)>>]

\* if missing_required: st.error(...); return the empty table
MissingRequiredResult(missing_required, columns) ==
    [df |-> EmptyFrame,
     msgs |-> <<Msg("error", "Erwartete Spalten nicht gefunden",
                    missing_required, columns)>>]

\* if missing_optional: st.warning(...)
MissingOptionalWarning(missing_optional) ==
    IF missing_optional # <<>>
    THEN <<Msg("warning", "Optionale Spalten nicht gefunden",
               missing_optional, <<>>)>>
    ELSE <<>>

\* the identity join only when both optional columns are there
UseIdentityKey_both(has_payment, has_option) == has_payment /\ has_option

\* if has_payment or has_option: identity join, else: fallback
UseIdentityKey(has_payment, has_option) == has_payment \/ has_option

\* prepare_contract_list(uploaded_file, ...): the keyed table and the
\* messages it shows (st.error, st.warning)
prepare_contract_list(file, system_id_col, asset_col, payment_id_arg, option_id_arg) ==
    LET columns == [i \in 1..Len(file.header) |-> NormalizeColumn(file.header[i])]
        required_cols == <<system_id_col, asset_col>>
        optional_cols ==
            (IF payment_id_arg # NoCol THEN <<payment_id_arg>> ELSE <<>>)
                \o (IF option_id_arg # NoCol THEN <<option_id_arg>> ELSE <<>>)
        missing_required == MissingFrom(required_cols, columns)
        missing_optional == MissingFrom(optional_cols, columns)
        payment_id_col ==
            IF payment_id_arg \in Range(missing_optional) THEN NoCol
            ELSE payment_id_arg
        option_id_col ==
            IF option_id_arg \in Range(missing_optional) THEN NoCol
            ELSE option_id_arg
        has_payment == payment_id_col # NoCol /\ payment_id_col \in Range(columns)
        has_option == option_id_col # NoCol /\ option_id_col \in Range(columns)
        rows1 == AsStr(AsStr(file.rows, ColPos(columns, system_id_col)),
                       ColPos(columns, asset_col))
        rows2 == IF has_payment
                 THEN AsStr(rows1, ColPos(columns, payment_id_col)) ELSE rows1
        rows3 == IF has_option
                 THEN AsStr(rows2, ColPos(columns, option_id_col)) ELSE rows2
        key_cols ==
            <<system_id_col, asset_col>>
                \o (IF has_payment THEN <<payment_id_col>> ELSE <<>>)
                \o (IF has_option THEN <<option_id_col>> ELSE <<>>)
        fb == FallbackKeys(columns, rows3, system_id_col, asset_col)
    IN  IF missing_required # <<>>
        THEN MissingRequiredResult(missing_required, columns)
        ELSE [df |->
                IF UseIdentityKey(has_payment, has_option)
                THEN [columns |-> columns,
                      rows |-> rows3,
                      index |-> [r \in 1..Len(rows3) |->
                          Join(<<"_">>,
                               [k \in 1..Len(key_cols) |->
                                   PyStr(rows3[r][ColPos(columns, key_cols[k])])])]]
                ELSE [columns |-> Append(columns, LineIndexName),
                      rows |-> fb.rows,
                      index |-> fb.index],
              msgs |-> MissingOptionalWarning(missing_optional)]

----------------------------------------------------------------------------
(* Header reconstructor (closings).  A closings sheet is read without a    *)
(* header: h1, h2, h3 are the physical rows 1, 2, 3 and rows the physical  *)
(* rows from 4 on (row 0 is never read).  The sheets of the model carry    *)
(* text in every header cell that becomes a column label on its own.       *)

SetMax(S) == CHOOSE x \in S : \A y \in S : y <= x

\* header.fillna(method="ffill")
FFill(row) ==
    [i \in 1..Len(row) |->
        LET filled == {j \in 1..i : ~IsNa(row[j])}
        IN  IF filled = {} THEN row[i] ELSE row[SetMax(filled)]]

\* re.sub(r"\s+", " ", s)
RECURSIVE CollapseWs(_)
CollapseWs(s) ==
    IF s = <<>> THEN <<>>
    ELSE IF Head(s) \in Whitespace THEN <<" ">> \o CollapseWs(LStrip(s))
    ELSE <<Head(s)>> \o CollapseWs(Tail(s))

\* the first columns keep the cell of header row 1 as their label
RawHeaderCols == 9

\* (mutant) the first columns get their label trimmed
columns_combined_trimmed(header_1, header_2, header_3) ==
    [i \in 1..Len(header_1) |->
        IF i - 1 < RawHeaderCols
        THEN IF header_1[i].t = "str" THEN Text(Strip(header_1[i].s)) ELSE header_1[i]
        ELSE LET beschreibung == CollapseWs(Strip(PyStr(header_1[i])))
                 konto_nr == Strip(PyStr(header_2[i]))
                 soll_haben == Strip(PyStr(header_3[i]))
             IN  Text(beschreibung \o <<" ", "-", " ">> \o konto_nr
                        \o <<"_", "I", "F", "R", "S", "1", "6", " ", "-", " ">> \o soll_haben)]

\* columns_combined, from header_1 and header_2 (forward-filled) and header_3
columns_combined(header_1, header_2, header_3) ==
    [i \in 1..Len(header_1) |->
        IF i - 1 < RawHeaderCols
        THEN header_1[i]
        ELSE LET beschreibung == CollapseWs(Strip(PyStr(header_1[i])))
                 konto_nr == Strip(PyStr(header_2[i]))
                 soll_haben == Strip(PyStr(header_3[i]))
             IN  Text(beschreibung \o <<" ", "-", " ">> \o konto_nr
                        \o <<"_", "I", "F", "R", "S", "1", "6", " ", "-", " ">> \o soll_haben)]

\* (mutant) the data rows are taken from physical row 3 on
ReadClosings_fromRow3(raw) ==
    [h1 |-> raw[2], h2 |-> raw[3], h3 |-> raw[4], rows |-> SubSeq(raw, 4, Len(raw))]

\* header_1, header_2, header_3 = df_raw.iloc[1], .iloc[2], .iloc[3] and
\* df_data = df_raw.iloc[4:] (iloc counts from 0, a sequence from 1)
ReadClosings(raw) ==
    [h1 |-> raw[2], h2 |-> raw[3], h3 |-> raw[4], rows |-> SubSeq(raw, 5, Len(raw))]

\* the identity column names of the closings comparison (German tab)
ClosingColsDE ==
    [id_col |-> <<"V", "e", "r", "t", "r", "a", "g", "s", "-", "I", "D">>,
     asset_col |-> <<"A", "s", "s", "e", "t", "-", "I", "D">>]

\* the identity column names of the closings comparison (English tab)
ClosingColsEN ==
    [id_col |-> <<"C", "o", "n", "t", "r", "a", "c", "t", " ", "I", "D">>,
     asset_col |-> <<"A", "s", "s", "e", "t", " ", "I", "D">>]

\* clean_and_prepare(uploaded_file, id_col, asset_col): the keyed table, or
\* the KeyError of df_data[id_col] when an identity column is not there
clean_and_prepare(file, id_col, asset_col) ==
    LET header_1 == FFill(file.h1)
        header_2 == FFill(file.h2)
        header_3 == file.h3
        combined == columns_combined(header_1, header_2, header_3)
        columns == [i \in 1..Len(combined) |-> combined[i].s]
        rows == AsStr(AsStr(file.rows, ColPos(columns, id_col)),
                      ColPos(columns, asset_col))
    IN  IF id_col \notin Range(columns) \/ asset_col \notin Range(columns)
        THEN [df |-> EmptyFrame, error |-> "KeyError"]
        ELSE [df |-> [columns |-> columns,
                      rows |-> rows,
                      index |-> [r \in 1..Len(rows) |->
                          rows[r][ColPos(columns, id_col)].s \o <<"_">>
                              \o rows[r][ColPos(columns, asset_col)].s]],
              error |-> "none"]

----------------------------------------------------------------------------
(* Reconciliation: the script of one tab from the two uploads to the diff  *)
(* report.  (The download buttons and the Excel exports only read the      *)
(* tables and are left out.)                                               *)

\* the texts of the German tab
LabelsDE ==
    [differences |-> "Unterschiede",
     only_in_prod |-> "Nur in Prod",
     only_in_test |-> "Nur in Test",
     none |-> "Keine",
     line_index |-> <<"Z", "e", "i", "l", "e", "n", "-", "I", "n", "d", "e", "x">>,
     cols_only_test |-> "Spalten nur in Test:",
     cols_only_prod |-> "Spalten nur in Prod:",
     cols_match |-> "Alle Spalten stimmen überein.",
     finished |-> "Vergleich abgeschlossen."]

\* key in df.index
InIndex(df, key) == key \in Range(df.index)

\* df.loc[key, col]: the cells of the rows labelled key, in row order (one
\* cell is a scalar, several are a Series)
Loc(df, key, col) ==
    LET pos == ColPos(df.columns, col)
        rs == SelectSeq([r \in 1..Len(df.rows) |-> r],
                        LAMBDA r : df.index[r] = key)
    IN  [k \in 1..Len(rs) |-> df.rows[rs[k]][pos]]

\* df.empty
IsEmpty(df) == Len(df.rows) = 0 \/ Len(df.columns) = 0

\* the column names left out of the column check
CheckExcluded(m) ==
    IF m = "closings"
    THEN {ClosingColsDE.id_col, ClosingColsDE.asset_col, KeyName}
    ELSE {ContractColsDE.system_id_col, ContractColsDE.asset_col, KeyName,
          LineIndexName}

\* the column names left out of common_cols
CompareExcluded(m) ==
    IF m = "closings"
    THEN {ClosingColsDE.id_col, ClosingColsDE.asset_col}
    ELSE {ContractColsDE.system_id_col, ContractColsDE.asset_col, KeyName,
          LineIndexName}

\* (mutant) the success message is shown whatever the two lists hold
ColumnCheckMsgs_alwaysSuccess(dt, dp, m, L) ==
    LET columns_test == Range(dt.columns) \ CheckExcluded(m)
        columns_prod == Range(dp.columns) \ CheckExcluded(m)
        only_in_test == Sorted(columns_test \ columns_prod)
        only_in_prod == Sorted(columns_prod \ columns_test)
    IN  (IF only_in_test # <<>>
         THEN <<Msg("warning", L.cols_only_test, only_in_test, <<>>)>> ELSE <<>>)
        \o (IF only_in_prod # <<>>
            THEN <<Msg("warning", L.cols_only_prod, only_in_prod, <<>>)>> ELSE <<>>)
        \o <<Msg("success", L.cols_match, <<>>, <<>>)>>

\* only_in_test, only_in_prod and the messages of the column check
ColumnCheckMsgs(dt, dp, m, L) ==
    LET columns_test == Range(dt.columns) \ CheckExcluded(m)
        columns_prod == Range(dp.columns) \ CheckExcluded(m)
        only_in_test == Sorted(columns_test \ columns_prod)
        only_in_prod == Sorted(columns_prod \ columns_test)
    IN  (IF only_in_test # <<>>
         THEN <<Msg("warning", L.cols_only_test, only_in_test, <<>>)>> ELSE <<>>)
        \o (IF only_in_prod # <<>>
            THEN <<Msg("warning", L.cols_only_prod, only_in_prod, <<>>)>> ELSE <<>>)
        \o (IF only_in_test = <<>> /\ only_in_prod = <<>>
            THEN <<Msg("success", L.cols_match, <<>>, <<>>)>> ELSE <<>>)

\* all_keys = sorted(set(df_test.index).union(set(df_prod.index)))
AllKeys(dt, dp) == Sorted(Range(dt.index) \cup Range(dp.index))

\* common_cols = df_test.columns.intersection(df_prod.columns).difference(...)
CommonCols(dt, dp, m) ==
    Sorted((Range(dt.columns) \cap Range(dp.columns)) \ CompareExcluded(m))

\* the identity fields of the report row of key
IdentityFields(dt, dp, key, m, L) ==
    IF m = "closings"
    THEN LET get(col) ==
                 IF InIndex(dt, key) THEN Loc(dt, key, col)
                 ELSE IF InIndex(dp, key) THEN Loc(dp, key, col)
                 ELSE <<Text(<<>>)>>
         IN  <<[name |-> ClosingColsDE.id_col,
                value |-> get(ClosingColsDE.id_col)],
               [name |-> ClosingColsDE.asset_col,
                value |-> get(ClosingColsDE.asset_col)]>>
    ELSE LET src == IF InIndex(dt, key) THEN dt ELSE dp
             field(col, name) ==
                 IF col \in Range(src.columns)
                 THEN <<[name |-> name, value |-> Loc(src, key, col)]>>
                 ELSE <<>>
         IN  <<[name |-> ContractColsDE.system_id_col,
                value |-> Loc(src, key, ContractColsDE.system_id_col)],
               [name |-> ContractColsDE.asset_col,
                value |-> Loc(src, key, ContractColsDE.asset_col)]>>
             \o field(ContractColsDE.payment_id_col, ContractColsDE.payment_id_col)
             \o field(ContractColsDE.option_id_col, ContractColsDE.option_id_col)
             \o field(LineIndexName, L.line_index)

\* the body of "for col in common_cols" for one column: no entry when both
\* sides are missing or nearly equal, else an entry when one side is
\* missing or the values differ
ColumnDiff(col, val_test, val_prod, r) ==
    IF IsNa(val_test) /\ IsNa(val_prod) THEN <<>>
    ELSE IF nearly_equal(val_test, val_prod, TOL, r) THEN <<>>
    ELSE IF IsNa(val_test) \/ IsNa(val_prod) \/ PyNotEqual(val_test, val_prod)
         THEN <<[col |-> col, test |-> val_test, prod |-> val_prod]>>
         ELSE <<>>

\* diffs, for a key of both tables; rd[k] is the rounding of the k-th column
RECURSIVE Diffs(_, _, _, _, _)
Diffs(dt, dp, key, cols, rd) ==
    IF cols = <<>> THEN <<>>
    ELSE ColumnDiff(Head(cols), Loc(dt, key, Head(cols))[1],
                    Loc(dp, key, Head(cols))[1], Head(rd))
             \o Diffs(dt, dp, key, Tail(cols), Tail(rd))

\* the roundings the comparisons of one key can see, column by column
RECURSIVE RoundingSeqs(_, _, _, _)
RoundingSeqs(dt, dp, key, cols) ==
    IF cols = <<>> THEN {<<>>}
    ELSE {<<r>> \o rest :
            r \in RoundingsOf(Loc(dt, key, Head(cols))[1],
                              Loc(dp, key, Head(cols))[1]),
            rest \in RoundingSeqs(dt, dp, key, Tail(cols))}

\* (mutant) the two status labels are exchanged
ReportRow_swapped(dt, dp, key, cols, m, L, rd) ==
    LET ident == IdentityFields(dt, dp, key, m, L)
        diffs == Diffs(dt, dp, key, cols, rd)
    IN  IF ~InIndex(dt, key)
        THEN [key |-> key, ident |-> ident, label |-> L.only_in_test, diffs |-> <<>>]
        ELSE IF ~InIndex(dp, key)
        THEN [key |-> key, ident |-> ident, label |-> L.only_in_prod, diffs |-> <<>>]
        ELSE IF diffs # <<>>
        THEN [key |-> key, ident |-> ident, label |-> "", diffs |-> diffs]
        ELSE [key |-> key, ident |-> ident, label |-> L.none, diffs |-> <<>>]

\* the report row of key
ReportRow(dt, dp, key, cols, m, L, rd) ==
    LET ident == IdentityFields(dt, dp, key, m, L)
        diffs == Diffs(dt, dp, key, cols, rd)
    IN  IF ~InIndex(dt, key)
        THEN [key |-> key, ident |-> ident, label |-> L.only_in_prod, diffs |-> <<>>]
        ELSE IF ~InIndex(dp, key)
        THEN [key |-> key, ident |-> ident, label |-> L.only_in_test, diffs |-> <<>>]
        ELSE IF diffs # <<>>
        THEN [key |-> key, ident |-> ident, label |-> "", diffs |-> diffs]
        ELSE [key |-> key, ident |-> ident, label |-> L.none, diffs |-> <<>>]

\* df_diff[df_diff["Unterschiede"] != "Keine"]
FilterReport(rows, L) ==
    SelectSeq(rows, LAMBDA row : ~(row.diffs = <<>> /\ row.label = L.none))

\* pd.isna(Series) in a condition: the contract list loop does not reduce a
\* Series to its first cell, and the truth value of a Series is an error
SeriesInCondition(dt, dp, key, cols, m) ==
    /\ m = "contracts"
    /\ cols # <<>>
    /\ InIndex(dt, key) /\ InIndex(dp, key)
    /\ \/ Len(Loc(dt, key, cols[1])) > 1
       \/ Len(Loc(dp, key, cols[1])) > 1

\* the texts of the English tab
LabelsEN ==
    [differences |-> "Differences",
     only_in_prod |-> "Only in Prod",
     only_in_test |-> "Only in Test",
     none |-> "None",
     line_index |-> <<"L", "i", "n", "e", " ", "i", "n", "d", "e", "x">>,
     cols_only_test |-> "Columns only in Test:",
     cols_only_prod |-> "Columns only in Prod:",
     cols_match |-> "All columns match.",
     finished |-> "Comparison complete."]

\* the column names left out of the column check (English tab)
CheckExcludedEN(m) ==
    IF m = "closings"
    THEN {ClosingColsEN.id_col, ClosingColsEN.asset_col, KeyName}
    ELSE {ContractColsEN.system_id_col, ContractColsEN.asset_col, KeyName,
          LineIndexName}

\* the column names left out of common_cols (English tab)
CompareExcludedEN(m) ==
    IF m = "closings"
    THEN {ClosingColsEN.id_col, ClosingColsEN.asset_col}
    ELSE {ContractColsEN.system_id_col, ContractColsEN.asset_col, KeyName,
          LineIndexName}

\* the messages of the column check (English tab)
ColumnCheckMsgsEN(dt, dp, m, L) ==
    LET columns_test == Range(dt.columns) \ CheckExcludedEN(m)
        columns_prod == Range(dp.columns) \ CheckExcludedEN(m)
        only_in_test == Sorted(columns_test \ columns_prod)
        only_in_prod == Sorted(columns_prod \ columns_test)
    IN  (IF only_in_test # <<>>
         THEN <<Msg("warning", L.cols_only_test, only_in_test, <<>>)>> ELSE <<>>)
        \o (IF only_in_prod # <<>>
            THEN <<Msg("warning", L.cols_only_prod, only_in_prod, <<>>)>> ELSE <<>>)
        \o (IF only_in_test = <<>> /\ only_in_prod = <<>>
            THEN <<Msg("success", L.cols_match, <<>>, <<>>)>> ELSE <<>>)

\* common_cols (English tab)
CommonColsEN(dt, dp, m) ==
    Sorted((Range(dt.columns) \cap Range(dp.columns)) \ CompareExcludedEN(m))

\* the identity fields of the report row of key (English tab)
IdentityFieldsEN(dt, dp, key, m, L) ==
    IF m = "closings"
    THEN LET get(col) ==
                 IF InIndex(dt, key) THEN Loc(dt, key, col)
                 ELSE IF InIndex(dp, key) THEN Loc(dp, key, col)
                 ELSE <<Text(<<>>)>>
         IN  <<[name |-> ClosingColsEN.id_col,
                value |-> get(ClosingColsEN.id_col)],
               [name |-> ClosingColsEN.asset_col,
                value |-> get(ClosingColsEN.asset_col)]>>
    ELSE LET src == IF InIndex(dt, key) THEN dt ELSE dp
             field(col, name) ==
                 IF col \in Range(src.columns)
                 THEN <<[name |-> name, value |-> Loc(src, key, col)]>>
                 ELSE <<>>
         IN  <<[name |-> ContractColsEN.system_id_col,
                value |-> Loc(src, key, ContractColsEN.system_id_col)],
               [name |-> ContractColsEN.asset_col,
                value |-> Loc(src, key, ContractColsEN.asset_col)]>>
             \o field(ContractColsEN.payment_id_col, ContractColsEN.payment_id_col)
             \o field(ContractColsEN.option_id_col, ContractColsEN.option_id_col)
             \o field(LineIndexName, L.line_index)

\* (mutant) the English loop with its two status labels exchanged
ReportRowEN_swapped(dt, dp, key, cols, m, L, rd) ==
    LET ident == IdentityFieldsEN(dt, dp, key, m, L)
        diffs == Diffs(dt, dp, key, cols, rd)
    IN  IF ~InIndex(dt, key)
        THEN [key |-> key, ident |-> ident, label |-> L.only_in_test, diffs |-> <<>>]
        ELSE IF ~InIndex(dp, key)
        THEN [key |-> key, ident |-> ident, label |-> L.only_in_prod, diffs |-> <<>>]
        ELSE IF diffs # <<>>
        THEN [key |-> key, ident |-> ident, label |-> "", diffs |-> diffs]
        ELSE [key |-> key, ident |-> ident, label |-> L.none, diffs |-> <<>>]

\* the report row of key (English tab)
ReportRowEN(dt, dp, key, cols, m, L, rd) ==
    LET ident == IdentityFieldsEN(dt, dp, key, m, L)
        diffs == Diffs(dt, dp, key, cols, rd)
    IN  IF ~InIndex(dt, key)
        THEN [key |-> key, ident |-> ident, label |-> L.only_in_prod, diffs |-> <<>>]
        ELSE IF ~InIndex(dp, key)
        THEN [key |-> key, ident |-> ident, label |-> L.only_in_test, diffs |-> <<>>]
        ELSE IF diffs # <<>>
        THEN [key |-> key, ident |-> ident, label |-> "", diffs |-> diffs]
        ELSE [key |-> key, ident |-> ident, label |-> L.none, diffs |-> <<>>]

\* df_test and df_prod of one tab, with the identity column names cl
\* (closings) or ct (contract lists) of the tab
\* (closings: t and p are the results of clean_and_prepare; an exception
\* of the first call ends the script before the second)
ClosingTables(t, p) ==
    IF t.error # "none"
    THEN [df_test |-> EmptyFrame, df_prod |-> EmptyFrame, msgs |-> <<>>,
          error |-> t.error, pc |-> "crashed"]
    ELSE IF p.error # "none"
    THEN [df_test |-> t.df, df_prod |-> EmptyFrame, msgs |-> <<>>,
          error |-> p.error, pc |-> "crashed"]
    ELSE [df_test |-> t.df, df_prod |-> p.df, msgs |-> <<>>,
          error |-> "none", pc |-> "prepared"]

\* (contract lists: t and p are the results of prepare_contract_list; the
\* section stops when both tables are empty)
ContractTables(t, p) ==
    [df_test |-> t.df, df_prod |-> p.df, msgs |-> t.msgs \o p.msgs,
     error |-> "none",
     pc |-> IF IsEmpty(t.df) /\ IsEmpty(p.df) THEN "stopped" ELSE "prepared"]

PrepareTables(m, ft, fp, cl, ct) ==
    IF m = "closings"
    THEN ClosingTables(clean_and_prepare(ft, cl.id_col, cl.asset_col),
                       clean_and_prepare(fp, cl.id_col, cl.asset_col))
    ELSE ContractTables(
             prepare_contract_list(ft, ct.system_id_col, ct.asset_col,
                                   ct.payment_id_col, ct.option_id_col),
             prepare_contract_list(fp, ct.system_id_col, ct.asset_col,
                                   ct.payment_id_col, ct.option_id_col))

----------------------------------------------------------------------------
(* Specification of the comparator: two raw values, one comparison *)

NumChars == {"1", "5", ".", ",", "-", " ", "x"}

\* native numbers: 0, 0.5, 1, 1.5, 2, 11, 15, -1
Natives ==
    {0, Scale \div 2, Scale, Scale + Scale \div 2, 2 * Scale, 11 * Scale,
     15 * Scale, -Scale}

NonText == {NaN, Bool(TRUE), Bool(FALSE)} \cup {Num(x) : x \in Natives}

\* a thousands-grouped text longer than MaxLen
Grouped == {Text(<<"1", ".", "2", "3", "4">>)}

RawA == NonText \cup {Text(s) : s \in TextsUpTo(NumChars, MaxLen)} \cup Grouped
RawB == NonText \cup {Text(s) : s \in TextsUpTo(NumChars, MaxLenB)}

\* the parts of the state a specification does not use
NumIdle ==
    /\ a = NaN /\ b = NaN
    /\ pa = NotParsed /\ pb = NotParsed
    /\ rnd = 0 /\ res = FALSE
    /\ npc = "off"

ContractIdle ==
    /\ cfile = [header |-> <<>>, rows |-> <<>>]
    /\ ctable = EmptyFrame
    /\ cmsgs = <<>>
    /\ cpc = "off"

CompareIdle ==
    /\ mode = "off"
    /\ file_test = <<>> /\ file_prod = <<>>
    /\ df_test = EmptyFrame /\ df_prod = EmptyFrame
    /\ msgs = <<>>
    /\ all_keys = <<>> /\ common_cols = <<>>
    /\ results = <<>>
    /\ compared = {}
    /\ df_diff = <<>>
    /\ error = "none"
    /\ pc = "off"

NoCall == [fn |-> "", file |-> <<>>, cols |-> <<>>, value |-> <<>>, hit |-> FALSE]

CacheIdle ==
    /\ cache = [clean_and_prepare |-> <<>>, prepare_contract_list |-> <<>>]
    /\ computed = <<>>
    /\ ret = NoCall
    /\ ncalls = 0

NoTab ==
    [pc |-> "off", df_test |-> EmptyFrame, df_prod |-> EmptyFrame, msgs |-> <<>>,
     all_keys |-> <<>>, common_cols |-> <<>>, results |-> <<>>, df_diff |-> <<>>,
     error |-> "none"]

TabIdle == en = NoTab

HeaderIdle ==
    /\ df_raw = <<>>
    /\ hcols = <<>>
    /\ hrows = <<>>
    /\ hpc = "off"

NumInit ==
    /\ a \in RawA
    /\ b \in RawB
    /\ pa = NotParsed
    /\ pb = NotParsed
    /\ rnd = 0
    /\ res = FALSE
    /\ npc = "in"
    /\ ContractIdle
    /\ CompareIdle
    /\ CacheIdle
    /\ HeaderIdle
    /\ TabIdle

\* one call nearly_equal(a, b, TOL)
NearlyEqual ==
    /\ npc = "in"
    /\ pa' = _try_parse_number(a)
    /\ pb' = _try_parse_number(b)
    /\ \E r \in RoundingsOf(a, b) :
          /\ rnd' = r
          /\ res' = nearly_equal(a, b, TOL, r)
    /\ npc' = "done"
    /\ UNCHANGED <<a, b, contractVars, compareVars, cacheVars, headerVars, en>>

NumNext == NearlyEqual

SpecNum == NumInit /\ [][NumNext]_vars

----------------------------------------------------------------------------
(* Specification of the contract list normaliser: one uploaded contract    *)
(* list, one call of prepare_contract_list (German tab).  The sheet has    *)
(* any selection of the columns below, in this order, and 1..MaxRows rows. *)

\* the header cell of the system identifier as it may be typed in the sheet
SystemHeaders == {<<"S", "y", "s", "t", "e", "m", "-", "I", "D">>, <<" ", "\"", "S", "y", "s", "t", "e", "m", "-", "I", "D", "\"", " ">>}

ContractColumns ==
    <<[names |-> SystemHeaders,
       values |-> {Text(<<"S", "1">>), Text(<<"S", "2">>)}],
      [names |-> {<<"A", "s", "s", "e", "t", " ", "S", "y", "s", "t", "e", "m", "-", "I", "D">>},
       values |-> {Text(<<"A", "1">>)}],
      [names |-> {<<"Z", "a", "h", "l", "u", "n", "g", "s", "-", "I", "D">>},
       values |-> {Text(<<"P", "1">>), NaN}],
      [names |-> {<<"O", "p", "t", "i", "o", "n", "s", "-", "I", "D">>},
       values |-> {Text(<<"O", "1">>)}],
      [names |-> {<<"B", "e", "t", "r", "a", "g">>},
       values |-> {Num(2 * Scale), Text(<<"2", ".", "0">>), NaN}],
      [names |-> {<<"S", "t", "a", "t", "u", "s">>},
       values |-> {Text(<<"a">>)}]>>

\* every selection of columns (in sheet order), as a sequence of
\* [name, values]
RECURSIVE Selections(_)
Selections(cs) ==
    IF cs = <<>> THEN {<<>>}
    ELSE LET rest == Selections(Tail(cs))
         IN  rest \cup {<<[name |-> n, values |-> Head(cs).values]>> \o r :
                            n \in Head(cs).names, r \in rest}

\* every row over the selected columns
RECURSIVE RowsOver(_)
RowsOver(sel) ==
    IF sel = <<>> THEN {<<>>}
    ELSE {<<v>> \o r : v \in Head(sel).values, r \in RowsOver(Tail(sel))}

RECURSIVE SeqsUpTo(_, _)
SeqsUpTo(S, n) ==
    IF n = 0 THEN {<<>>}
    ELSE LET shorter == SeqsUpTo(S, n - 1)
         IN  shorter \cup {Append(q, x) : q \in shorter, x \in S}

Sheets(cs, maxRows) ==
    UNION {{[header |-> [i \in 1..Len(sel) |-> sel[i].name], rows |-> rows] :
               rows \in SeqsUpTo(RowsOver(sel), maxRows) \ {<<>>}} :
           sel \in Selections(cs) \ {<<>>}}

ContractInit ==
    /\ cfile \in Sheets(ContractColumns, MaxRows)
    /\ ctable = EmptyFrame
    /\ cmsgs = <<>>
    /\ cpc = "in"
    /\ NumIdle
    /\ CompareIdle
    /\ CacheIdle
    /\ HeaderIdle
    /\ TabIdle

\* df = prepare_contract_list(file, system_id_col, asset_col,
\*                            payment_id_col=..., option_id_col=...)
PrepareContractList ==
    /\ cpc = "in"
    /\ LET r == prepare_contract_list(cfile,
                    ContractColsDE.system_id_col, ContractColsDE.asset_col,
                    ContractColsDE.payment_id_col, ContractColsDE.option_id_col)
       IN  /\ ctable' = r.df
           /\ cmsgs' = r.msgs
    /\ cpc' = "done"
    /\ UNCHANGED <<cfile, numVars, compareVars, cacheVars, headerVars, en>>

ContractNext == PrepareContractList

SpecContract == ContractInit /\ [][ContractNext]_vars

----------------------------------------------------------------------------
(* Specification of a comparison: two uploaded sheets of the chosen        *)
(* section, then the script of the German tab step by step.                *)

\* Closings sheets: nine leading columns (the two identity columns, a text
\* column, six empty ones) and one or two amount columns.
ClosingLead(id_header) ==
    <<Text(id_header), Text(<<"A", "s", "s", "e", "t", "-", "I", "D">>), Text(<<"N", "a", "m", "e">>), Text(<<"c", "4">>), Text(<<"c", "5">>), Text(<<"c", "6">>), Text(<<"c", "7">>), Text(<<"c", "8">>), Text(<<"c", "9">>)>>

ClosingBlank == <<NaN, NaN, NaN, NaN, NaN, NaN, NaN, NaN, NaN>>

ClosingRow(id, amounts) ==
    <<id, Text(<<"A", "1">>), Text(<<"x">>), NaN, NaN, NaN, NaN, NaN, NaN>> \o amounts

\* the header variants: "same" is the layout of the test sheet
ClosingVariants == {"same", "extra", "other", "noid"}

ClosingSheet(variant, idAmounts) ==
    [h1 |-> ClosingLead(IF variant = "noid" THEN <<"I", "D">> ELSE <<"V", "e", "r", "t", "r", "a", "g", "s", "-", "I", "D">>)
                \o (IF variant = "extra" THEN <<Text(<<"Z", " ", "i">>), NaN>> ELSE <<Text(<<"Z", " ", " ", "i", " ">>)>>),
     h2 |-> ClosingBlank
                \o (IF variant = "extra" THEN <<Text(<<"1">>), NaN>>
                                         ELSE <<Text(<<"1">>)>>),
     h3 |-> ClosingBlank
                \o (IF variant = "extra" THEN <<Text(<<"S">>), Text(<<"H">>)>>
                    ELSE IF variant = "other" THEN <<Text(<<"H">>)>>
                    ELSE <<Text(<<" ", "S">>)>>),
     rows |-> [r \in 1..Len(idAmounts) |->
                  ClosingRow(idAmounts[r][1],
                             IF variant = "extra"
                             THEN <<idAmounts[r][2], Num(2 * Scale)>>
                             ELSE <<idAmounts[r][2]>>)]]

TestIds == {Text(<<"C", "1">>), Text(<<"C", "2">>)}
ProdIds == {Text(<<"C", "1">>)}

\* 1,5 and 2.0 are nearly equal, 1,5 and 2.5 are exactly 1.0 apart
TestAmounts == {Text(<<"1", ",", "5">>), Num(2 * Scale), Num(2 * Scale + Scale \div 2), NaN}
ProdAmounts == {Text(<<"1", ",", "5">>), NaN}

ClosingTestSheets ==
    {ClosingSheet("same", rows) :
        rows \in SeqsUpTo(TestIds \X TestAmounts, MaxTestRows)}

\* (one sheet without the identity column is enough: its rows are never read)
ClosingProdSheets ==
    {ClosingSheet(v, rows) :
        v \in ClosingVariants \ {"noid"},
        rows \in SeqsUpTo(ProdIds \X ProdAmounts, MaxProdRows)}
    \cup {ClosingSheet("noid", <<<<Text(<<"C", "1">>), NaN>>>>)}

\* Contract lists: with the payment identifier, without it, without the
\* system identifier, and (prod) without the amount column.
ContractLayout(ids, amounts) ==
    [full |-> <<[name |-> <<"S", "y", "s", "t", "e", "m", "-", "I", "D">>, values |-> ids],
                [name |-> <<"A", "s", "s", "e", "t", " ", "S", "y", "s", "t", "e", "m", "-", "I", "D">>, values |-> {Text(<<"A", "1">>)}],
                [name |-> <<"Z", "a", "h", "l", "u", "n", "g", "s", "-", "I", "D">>, values |-> {Text(<<"P", "1">>)}],
                [name |-> <<"B", "e", "t", "r", "a", "g">>, values |-> amounts]>>,
     plain |-> <<[name |-> <<"S", "y", "s", "t", "e", "m", "-", "I", "D">>, values |-> ids],
                 [name |-> <<"A", "s", "s", "e", "t", " ", "S", "y", "s", "t", "e", "m", "-", "I", "D">>, values |-> {Text(<<"A", "1">>)}],
                 [name |-> <<"B", "e", "t", "r", "a", "g">>, values |-> amounts]>>,
     nosys |-> <<[name |-> <<"A", "s", "s", "e", "t", " ", "S", "y", "s", "t", "e", "m", "-", "I", "D">>, values |-> {Text(<<"A", "1">>)}],
                 [name |-> <<"B", "e", "t", "r", "a", "g">>, values |-> amounts]>>,
     noamount |-> <<[name |-> <<"S", "y", "s", "t", "e", "m", "-", "I", "D">>, values |-> ids],
                    [name |-> <<"A", "s", "s", "e", "t", " ", "S", "y", "s", "t", "e", "m", "-", "I", "D">>, values |-> {Text(<<"A", "1">>)}],
                    [name |-> <<"Z", "a", "h", "l", "u", "n", "g", "s", "-", "I", "D">>, values |-> {Text(<<"P", "1">>)}]>>]

SheetsOver(sel, maxRows) ==
    {[header |-> [i \in 1..Len(sel) |-> sel[i].name], rows |-> rows] :
        rows \in SeqsUpTo(RowsOver(sel), maxRows) \ {<<>>}}

TestSys == {Text(<<"S", "1">>), Text(<<"S", "2">>)}
ProdSys == {Text(<<"S", "1">>)}
ContractTestAmounts == {Text(<<"1", ",", "5">>), Num(2 * Scale + Scale \div 2)}

ContractTestSheets ==
    LET lay == ContractLayout(TestSys, ContractTestAmounts)
    IN  UNION {SheetsOver(lay[k], MaxTestRows) : k \in {"full", "plain", "nosys"}}

ContractProdSheets ==
    LET lay == ContractLayout(ProdSys, ProdAmounts)
    IN  UNION {SheetsOver(lay[k], MaxProdRows) : k \in DOMAIN lay}

CompareInit ==
    /\ mode \in {"closings", "contracts"}
    /\ file_test \in IF mode = "closings" THEN ClosingTestSheets ELSE ContractTestSheets
    /\ file_prod \in IF mode = "closings" THEN ClosingProdSheets ELSE ContractProdSheets
    /\ df_test = EmptyFrame /\ df_prod = EmptyFrame
    /\ msgs = <<>>
    /\ all_keys = <<>> /\ common_cols = <<>>
    /\ results = <<>>
    /\ compared = {}
    /\ df_diff = <<>>
    /\ error = "none"
    /\ pc = "upload"
    /\ NumIdle
    /\ ContractIdle
    /\ CacheIdle
    /\ HeaderIdle
    /\ TabIdle

\* if file_test and file_prod: df_test = ...; df_prod = ... (and, for the
\* contract lists, st.stop() when both tables are empty)
Prepare ==
    /\ pc = "upload"
    /\ IF mode = "closings"
       THEN LET t == clean_and_prepare(file_test, ClosingColsDE.id_col,
                                       ClosingColsDE.asset_col)
                p == clean_and_prepare(file_prod, ClosingColsDE.id_col,
                                       ClosingColsDE.asset_col)
            IN  IF t.error # "none"
                THEN /\ error' = t.error /\ pc' = "crashed"
                     /\ UNCHANGED <<df_test, df_prod, msgs>>
                ELSE IF p.error # "none"
                THEN /\ error' = p.error /\ pc' = "crashed"
                     /\ df_test' = t.df
                     /\ UNCHANGED <<df_prod, msgs>>
                ELSE /\ df_test' = t.df /\ df_prod' = p.df
                     /\ pc' = "prepared"
                     /\ UNCHANGED <<error, msgs>>
       ELSE LET t == prepare_contract_list(file_test,
                        ContractColsDE.system_id_col, ContractColsDE.asset_col,
                        ContractColsDE.payment_id_col, ContractColsDE.option_id_col)
                p == prepare_contract_list(file_prod,
                        ContractColsDE.system_id_col, ContractColsDE.asset_col,
                        ContractColsDE.payment_id_col, ContractColsDE.option_id_col)
            IN  /\ df_test' = t.df /\ df_prod' = p.df
                /\ msgs' = msgs \o t.msgs \o p.msgs
                /\ pc' = IF IsEmpty(t.df) /\ IsEmpty(p.df) THEN "stopped" ELSE "prepared"
                /\ UNCHANGED error
    /\ UNCHANGED <<mode, file_test, file_prod, all_keys, common_cols, results,
                   compared, df_diff, numVars, contractVars, cacheVars, headerVars, en>>

\* the column check, all_keys and common_cols
CheckColumns ==
    /\ pc = "prepared"
    /\ msgs' = msgs \o ColumnCheckMsgs(df_test, df_prod, mode, LabelsDE)
    /\ all_keys' = AllKeys(df_test, df_prod)
    /\ common_cols' = CommonCols(df_test, df_prod, mode)
    /\ pc' = "loop"
    /\ UNCHANGED <<mode, file_test, file_prod, df_test, df_prod, results,
                   compared, df_diff, error, numVars, contractVars, cacheVars, headerVars, en>>

\* one pass of "for key in all_keys"
CompareKey ==
    /\ pc = "loop"
    /\ Len(results) < Len(all_keys)
    /\ LET key == all_keys[Len(results) + 1]
           both == InIndex(df_test, key) /\ InIndex(df_prod, key)
       IN  IF SeriesInCondition(df_test, df_prod, key, common_cols, mode)
           THEN /\ error' = "ValueError" /\ pc' = "crashed"
                /\ compared' = compared \cup {<<key, common_cols[1]>>}
                /\ UNCHANGED results
           ELSE /\ \E rd \in (IF both
                             THEN RoundingSeqs(df_test, df_prod, key, common_cols)
                             ELSE {<<>>}) :
                       results' = Append(results,
                           ReportRow(df_test, df_prod, key, common_cols, mode,
                                     LabelsDE, rd))
                /\ compared' = compared \cup
                       (IF both THEN {<<key, c>> : c \in Range(common_cols)} ELSE {})
                /\ UNCHANGED <<error, pc>>
    /\ UNCHANGED <<mode, file_test, file_prod, df_test, df_prod, msgs, all_keys,
                   common_cols, df_diff, numVars, contractVars, cacheVars, headerVars, en>>

\* df_diff = pd.DataFrame(results); the filter; the closing message
Filter ==
    /\ pc = "loop"
    /\ Len(results) = Len(all_keys)
    /\ IF results = <<>>
       THEN /\ error' = "KeyError" /\ pc' = "crashed"
            /\ UNCHANGED <<df_diff, msgs>>
       ELSE /\ df_diff' = FilterReport(results, LabelsDE)
            /\ msgs' = Append(msgs,
                   Msg("success", LabelsDE.finished,
                       <<NatStr(Len(FilterReport(results, LabelsDE)))>>, <<>>))
            /\ pc' = "done"
            /\ UNCHANGED error
    /\ UNCHANGED <<mode, file_test, file_prod, df_test, df_prod, all_keys,
                   common_cols, results, compared, numVars, contractVars, cacheVars, headerVars, en>>

CompareNext == Prepare \/ CheckColumns \/ CompareKey \/ Filter

SpecCompare == CompareInit /\ [][CompareNext]_vars

----------------------------------------------------------------------------
(* The memoising decorator.  Both table normalisers are decorated with     *)
(* @st.cache_data (no ttl, no max_entries, no call of clear anywhere): a   *)
(* call looks its arguments up in the store of its function, returns the   *)
(* stored result on a hit, and otherwise runs the body and stores what it  *)
(* returns.  A body that raises stores nothing.                            *)

\* (mutant) the key leaves the identity column names out
CacheKey_fileOnly(fn, file, cols) == [file |-> file, cols |-> <<>>]

\* the key of a call: all its arguments (no parameter is named _...)
CacheKey(fn, file, cols) == [file |-> file, cols |-> cols]

\* the decorated function itself
Body(fn, file, cols) ==
    IF fn = "clean_and_prepare"
    THEN clean_and_prepare(file, cols[1], cols[2])
    ELSE prepare_contract_list(file, cols[1], cols[2], cols[3], cols[4])

\* the body ended with an exception
Raised(fn, value) == fn = "clean_and_prepare" /\ value.error # "none"

\* the argument lists of the two tabs
ClosingConfigs ==
    {<<ClosingColsDE.id_col, ClosingColsDE.asset_col>>,
     <<ClosingColsEN.id_col, ClosingColsEN.asset_col>>}

ContractConfigs ==
    {<<ContractColsDE.system_id_col, ContractColsDE.asset_col,
       ContractColsDE.payment_id_col, ContractColsDE.option_id_col>>,
     <<ContractColsEN.system_id_col, ContractColsEN.asset_col,
       ContractColsEN.payment_id_col, ContractColsEN.option_id_col>>}

\* a closings sheet that carries the identity columns of both tabs, and one
\* with the German ones only
ClosingBilingual ==
    [h1 |-> <<Text(<<"V", "e", "r", "t", "r", "a", "g", "s", "-", "I", "D">>), Text(<<"A", "s", "s", "e", "t", "-", "I", "D">>), Text(<<"C", "o", "n", "t", "r", "a", "c", "t", " ", "I", "D">>), Text(<<"A", "s", "s", "e", "t", " ", "I", "D">>), Text(<<"c", "5">>), Text(<<"c", "6">>), Text(<<"c", "7">>), Text(<<"c", "8">>), Text(<<"c", "9">>), Text(<<"Z", " ", "i">>)>>,
     h2 |-> ClosingBlank \o <<Text(<<"1">>)>>,
     h3 |-> ClosingBlank \o <<Text(<<"S">>)>>,
     rows |-> <<<<Text(<<"C", "1">>), Text(<<"A", "1">>), Text(<<"C", "2">>), Text(<<"A", "2">>), NaN, NaN, NaN, NaN, NaN, Text(<<"1", ",", "5">>)>>>>]

CacheClosingSheets ==
    {ClosingBilingual, ClosingSheet("same", <<<<Text(<<"C", "1">>), Text(<<"1", ",", "5">>)>>>>)}

ContractBilingual ==
    [header |-> <<<<"S", "y", "s", "t", "e", "m", "-", "I", "D">>, <<"A", "s", "s", "e", "t", " ", "S", "y", "s", "t", "e", "m", "-", "I", "D">>, <<"S", "y", "s", "t", "e", "m", " ", "I", "D">>, <<"A", "s", "s", "e", "t", " ", "[", "S", "y", "s", "t", "e", "m", " ", "I", "D", "]">>, <<"B", "e", "t", "r", "a", "g">>>>,
     rows |-> <<<<Text(<<"S", "1">>), Text(<<"A", "1">>), Text(<<"S", "2">>), Text(<<"A", "2">>), Text(<<"1", ",", "5">>)>>>>]

ContractGerman ==
    [header |-> <<<<"S", "y", "s", "t", "e", "m", "-", "I", "D">>, <<"A", "s", "s", "e", "t", " ", "S", "y", "s", "t", "e", "m", "-", "I", "D">>, <<"Z", "a", "h", "l", "u", "n", "g", "s", "-", "I", "D">>, <<"B", "e", "t", "r", "a", "g">>>>,
     rows |-> <<<<Text(<<"S", "1">>), Text(<<"A", "1">>), Text(<<"P", "1">>), Text(<<"1", ",", "5">>)>>>>]

CacheContractSheets == {ContractBilingual, ContractGerman}

CacheInit ==
    /\ cache = [clean_and_prepare |-> <<>>, prepare_contract_list |-> <<>>]
    /\ computed = <<>>
    /\ ret = NoCall
    /\ ncalls = 0
    /\ NumIdle
    /\ ContractIdle
    /\ CompareIdle
    /\ HeaderIdle
    /\ TabIdle

\* one call of a decorated function
Call(fn, file, cols) ==
    /\ ncalls < MaxCalls
    /\ LET key == CacheKey(fn, file, cols)
           hit == key \in DOMAIN cache[fn]
           value == IF hit THEN cache[fn][key] ELSE Body(fn, file, cols)
           stored == ~hit /\ ~Raised(fn, value)
       IN  /\ ret' = [fn |-> fn, file |-> file, cols |-> cols,
                      value |-> value, hit |-> hit]
           /\ cache' = IF stored
                       THEN [cache EXCEPT ![fn] = (key :> value) @@ @]
                       ELSE cache
           /\ computed' = IF stored
                          THEN Append(computed, [fn |-> fn, file |-> file, cols |-> cols])
                          ELSE computed
    /\ ncalls' = ncalls + 1
    /\ UNCHANGED <<numVars, contractVars, compareVars, headerVars, en>>

CallCleanAndPrepare ==
    \E file \in CacheClosingSheets, cols \in ClosingConfigs :
        Call("clean_and_prepare", file, cols)

CallPrepareContractList ==
    \E file \in CacheContractSheets, cols \in ContractConfigs :
        Call("prepare_contract_list", file, cols)

CacheNext == CallCleanAndPrepare \/ CallPrepareContractList

SpecCache == CacheInit /\ [][CacheNext]_vars

----------------------------------------------------------------------------
(* Specification of the header reconstruction: one closings sheet as read  *)
(* (physical row 0, the three header rows, the data rows), then the part   *)
(* of clean_and_prepare that names the columns.  The sheet has the nine    *)
(* leading columns and two amount columns.                                 *)

HeaderRow0 == <<Text(<<"C", "l", "o", "s", "i", "n", "g", "s">>), NaN, NaN, NaN, NaN, NaN, NaN, NaN, NaN, NaN, NaN>>

HeaderRows1 ==
    {<<c1, c2, Text(<<"c", "3">>), Text(<<"c", "4">>), Text(<<"c", "5">>), Text(<<"c", "6">>), Text(<<"c", "7">>), Text(<<"c", "8">>), c9, c10, c11>> :
        c1 \in {Text(<<"V", "e", "r", "t", "r", "a", "g", "s", "-", "I", "D">>), NaN},
        c2 \in {Text(<<"A", "s", "s", "e", "t", "-", "I", "D">>), NaN, Text(<<" ", "N", " ", " ", "n", " ">>)},
        c9 \in {Text(<<"c", "9">>), NaN},
        c10 \in {Text(<<"Z", " ", " ", "i", " ">>), NaN},
        c11 \in {Text(<<"Y">>), NaN}}

HeaderRows2 ==
    {<<NaN, NaN, NaN, NaN, NaN, NaN, NaN, NaN, c9, c10, c11>> :
        c9 \in {Text(<<"k">>), NaN},
        c10 \in {Text(<<" ", "1">>), Num(Scale), NaN},
        c11 \in {Text(<<"2">>), NaN}}

HeaderRows3 ==
    {<<NaN, NaN, NaN, NaN, NaN, NaN, NaN, NaN, NaN, c10, c11>> :
        c10 \in {Text(<<" ", "S">>), NaN},
        c11 \in {Text(<<"H">>), NaN}}

HeaderDataRow(r) ==
    <<Text(<<"C", DigitChar(r)>>), Text(<<"A", "1">>), NaN, NaN, NaN, NaN, NaN, NaN, NaN,
      Num(r * Scale), NaN>>

HeaderInit ==
    /\ \E r1 \in HeaderRows1, r2 \in HeaderRows2, r3 \in HeaderRows3,
          n \in 0..MaxDataRows :
           df_raw = <<HeaderRow0, r1, r2, r3>> \o [r \in 1..n |-> HeaderDataRow(r)]
    /\ hcols = <<>>
    /\ hrows = <<>>
    /\ hpc = "in"
    /\ NumIdle
    /\ ContractIdle
    /\ CompareIdle
    /\ CacheIdle
    /\ TabIdle

\* clean_and_prepare up to df_data.columns = columns_combined
ReconstructHeader ==
    /\ hpc = "in"
    /\ LET file == ReadClosings(df_raw)
           header_1 == FFill(file.h1)
           header_2 == FFill(file.h2)
           header_3 == file.h3
       IN  /\ hcols' = columns_combined(header_1, header_2, header_3)
           /\ hrows' = file.rows
    /\ hpc' = "done"
    /\ UNCHANGED <<df_raw, numVars, contractVars, compareVars, cacheVars, en>>

HeaderNext == ReconstructHeader

SpecHeader == HeaderInit /\ [][HeaderNext]_vars

----------------------------------------------------------------------------
(* Specification of the column name normalisation: a contract list whose   *)
(* System-ID header is wrapped in blanks and quotes, one call of           *)
(* prepare_contract_list (German tab).                                     *)

Decorations == TextsUpTo({" ", "\"", "'"}, MaxPad)

DecoratedSheets ==
    {[header |-> <<pre \o ContractColsDE.system_id_col \o post,
                   ContractColsDE.asset_col, <<"B", "e", "t", "r", "a", "g">>>>,
      rows |-> <<<<Text(<<"S", "1">>), Text(<<"A", "1">>), Num(2 * Scale)>>>>] :
        pre \in Decorations, post \in Decorations}

ColumnsInit ==
    /\ cfile \in DecoratedSheets
    /\ ctable = EmptyFrame
    /\ cmsgs = <<>>
    /\ cpc = "in"
    /\ NumIdle
    /\ CompareIdle
    /\ CacheIdle
    /\ HeaderIdle
    /\ TabIdle

SpecColumns == ColumnsInit /\ [][ContractNext]_vars

----------------------------------------------------------------------------
(* Specification of the two tabs side by side: the same two sheets, with   *)
(* the identity column names of the respective tab, go through the German  *)
(* and the English script in step; a comparison of two cells rounds the    *)
(* same way in both.                                                       *)

\* the English identity column name for a German one
EnglishName(name) ==
    CASE name = ClosingColsDE.id_col -> ClosingColsEN.id_col
      [] name = ClosingColsDE.asset_col -> ClosingColsEN.asset_col
      [] name = ContractColsDE.system_id_col -> ContractColsEN.system_id_col
      [] name = ContractColsDE.asset_col -> ContractColsEN.asset_col
      [] name = ContractColsDE.payment_id_col -> ContractColsEN.payment_id_col
      [] name = ContractColsDE.option_id_col -> ContractColsEN.option_id_col
      [] OTHER -> name

\* the sheet as it is uploaded to the English tab
ToEnglish(m, file) ==
    IF m = "closings"
    THEN [file EXCEPT !.h1 =
             [i \in DOMAIN file.h1 |->
                 IF file.h1[i].t = "str" THEN Text(EnglishName(file.h1[i].s))
                                         ELSE file.h1[i]]]
    ELSE [file EXCEPT !.header =
             [i \in DOMAIN file.header |-> EnglishName(file.header[i])]]

\* the rounding of the English comparison of each column: that of the
\* German comparison of the same column
SameRoundings(cols_de, rd, cols_en) ==
    [k \in DOMAIN cols_en |->
        LET js == {j \in DOMAIN cols_de : EnglishName(cols_de[j]) = cols_en[k]}
        IN  IF js = {} THEN 0 ELSE rd[CHOOSE j \in js : TRUE]]

\* the closings test sheets of the two tabs: amounts 1,5 and 2.5
TabsClosingTestSheets ==
    {ClosingSheet("same", rows) :
        rows \in SeqsUpTo(TestIds \X ContractTestAmounts, MaxTestRows)}

TabsInit ==
    /\ mode \in {"closings", "contracts"}
    /\ file_test \in IF mode = "closings" THEN TabsClosingTestSheets ELSE ContractTestSheets
    /\ file_prod \in IF mode = "closings" THEN ClosingProdSheets ELSE ContractProdSheets
    /\ df_test = EmptyFrame /\ df_prod = EmptyFrame
    /\ msgs = <<>>
    /\ all_keys = <<>> /\ common_cols = <<>>
    /\ results = <<>>
    /\ compared = {}
    /\ df_diff = <<>>
    /\ error = "none"
    /\ pc = "upload"
    /\ en = [NoTab EXCEPT !.pc = "upload"]
    /\ NumIdle
    /\ ContractIdle
    /\ CacheIdle
    /\ HeaderIdle

\* df_test, df_prod of both tabs
\* (d and e are the prepared tables of the German and of the English tab)
TabsPrepared(d, e) ==
    /\ df_test' = d.df_test /\ df_prod' = d.df_prod
    /\ msgs' = msgs \o d.msgs
    /\ error' = d.error
    /\ pc' = d.pc
    /\ en' = [en EXCEPT !.df_test = e.df_test, !.df_prod = e.df_prod,
                        !.msgs = @ \o e.msgs, !.error = e.error,
                        !.pc = e.pc]

TabsPrepare ==
    /\ pc = "upload"
    /\ TabsPrepared(PrepareTables(mode, file_test, file_prod,
                                  ClosingColsDE, ContractColsDE),
                    PrepareTables(mode, ToEnglish(mode, file_test),
                                  ToEnglish(mode, file_prod),
                                  ClosingColsEN, ContractColsEN))
    /\ UNCHANGED <<mode, file_test, file_prod, all_keys, common_cols, results,
                   compared, df_diff, numVars, contractVars, cacheVars, headerVars>>

\* the column check, all_keys and common_cols of both tabs
TabsCheckColumns ==
    /\ pc = "prepared"
    /\ msgs' = msgs \o ColumnCheckMsgs(df_test, df_prod, mode, LabelsDE)
    /\ all_keys' = AllKeys(df_test, df_prod)
    /\ common_cols' = CommonCols(df_test, df_prod, mode)
    /\ pc' = "loop"
    /\ en' = IF en.pc # "prepared" THEN en
             ELSE [en EXCEPT
                      !.msgs = @ \o ColumnCheckMsgsEN(en.df_test, en.df_prod,
                                                      mode, LabelsEN),
                      !.all_keys = AllKeys(en.df_test, en.df_prod),
                      !.common_cols = CommonColsEN(en.df_test, en.df_prod, mode),
                      !.pc = "loop"]
    /\ UNCHANGED <<mode, file_test, file_prod, df_test, df_prod, results,
                   compared, df_diff, error, numVars, contractVars, cacheVars,
                   headerVars>>

\* one pass of "for key in all_keys" of the English tab
TabCompareKeyEN(rd_en) ==
    LET key == en.all_keys[Len(en.results) + 1]
    IN  IF SeriesInCondition(en.df_test, en.df_prod, key, en.common_cols, mode)
        THEN [en EXCEPT !.error = "ValueError", !.pc = "crashed"]
        ELSE [en EXCEPT !.results =
                 Append(@, ReportRowEN(en.df_test, en.df_prod, key,
                                       en.common_cols, mode, LabelsEN, rd_en))]

\* one pass of "for key in all_keys" of both tabs
TabsCompareKey ==
    /\ pc = "loop"
    /\ Len(results) < Len(all_keys)
    /\ LET key == all_keys[Len(results) + 1]
           both == InIndex(df_test, key) /\ InIndex(df_prod, key)
       IN  \E rd \in (IF both /\ ~SeriesInCondition(df_test, df_prod, key,
                                                    common_cols, mode)
                      THEN RoundingSeqs(df_test, df_prod, key, common_cols)
                      ELSE {[k \in DOMAIN common_cols |-> 0]}) :
               /\ IF SeriesInCondition(df_test, df_prod, key, common_cols, mode)
                  THEN /\ error' = "ValueError" /\ pc' = "crashed"
                       /\ compared' = compared \cup {<<key, common_cols[1]>>}
                       /\ UNCHANGED results
                  ELSE /\ results' = Append(results,
                              ReportRow(df_test, df_prod, key, common_cols, mode,
                                        LabelsDE, rd))
                       /\ compared' = compared \cup
                              (IF both THEN {<<key, c>> : c \in Range(common_cols)}
                                       ELSE {})
                       /\ UNCHANGED <<error, pc>>
               /\ en' = IF en.pc = "loop" /\ Len(en.results) < Len(en.all_keys)
                        THEN TabCompareKeyEN(
                                 SameRoundings(common_cols, rd, en.common_cols))
                        ELSE en
    /\ UNCHANGED <<mode, file_test, file_prod, df_test, df_prod, msgs, all_keys,
                   common_cols, df_diff, numVars, contractVars, cacheVars,
                   headerVars>>

\* df_diff, the filter and the closing message of the English tab
TabFilterEN ==
    IF en.results = <<>>
    THEN [en EXCEPT !.error = "KeyError", !.pc = "crashed"]
    ELSE [en EXCEPT
             !.df_diff = FilterReport(en.results, LabelsEN),
             !.msgs = Append(@, Msg("success", LabelsEN.finished,
                        <<NatStr(Len(FilterReport(en.results, LabelsEN)))>>, <<>>)),
             !.pc = "done"]

\* df_diff, the filter and the closing message of both tabs
TabsFilter ==
    /\ pc = "loop"
    /\ Len(results) = Len(all_keys)
    /\ IF results = <<>>
       THEN /\ error' = "KeyError" /\ pc' = "crashed"
            /\ UNCHANGED <<df_diff, msgs>>
       ELSE /\ df_diff' = FilterReport(results, LabelsDE)
            /\ msgs' = Append(msgs,
                   Msg("success", LabelsDE.finished,
                       <<NatStr(Len(FilterReport(results, LabelsDE)))>>, <<>>))
            /\ pc' = "done"
            /\ UNCHANGED error
    /\ en' = IF en.pc = "loop" /\ Len(en.results) = Len(en.all_keys)
             THEN TabFilterEN ELSE en
    /\ UNCHANGED <<mode, file_test, file_prod, df_test, df_prod, all_keys,
                   common_cols, results, compared, numVars, contractVars,
                   cacheVars, headerVars>>

TabsNext == TabsPrepare \/ TabsCheckColumns \/ TabsCompareKey \/ TabsFilter

SpecTabs == TabsInit /\ [][TabsNext]_vars

----------------------------------------------------------------------------
(* Claims about the comparator (SpecNum) *)

\* The numbers a raw value is a representation of: the native number;
\* for text without "." the decimal-comma reading; for text without ","
\* the decimal-point reading.
Readings(x) ==
    IF x.t = "num" THEN {x.n}
    ELSE IF x.t # "str" THEN {}
    ELSE LET s == RemoveChars(Strip(x.s), Cleaned)
             hasDot == \E i \in 1..Len(s) : s[i] = "."
             hasComma == \E i \in 1..Len(s) : s[i] = ","
             comma == ReplaceChar(s, ",", ".")
         IN  (IF ~hasDot /\ IsFloatLiteral(comma) THEN {FloatVal(comma)} ELSE {})
             \cup (IF ~hasComma /\ IsFloatLiteral(s) THEN {FloatVal(s)} ELSE {})

SameNumber(x, y) == Readings(x) \cap Readings(y) # {}

\* C1: nearly_equal(x, y) is true whenever x and y are representations of
\* the same number (decimal-comma text, decimal-point text, native number),
\* and nearly_equal(x, x) is true for every x that parses as numeric.
C1_SameNumberNearlyEqual ==
    npc = "done" =>
        /\ SameNumber(a, b) => res
        /\ (a = b /\ pa.ok) => res

\* C2: nearly_equal(a, b, 1.0) is true if and only if both values parse as
\* numeric and the computed |value(a) - value(b)| is below 1.0; it is false
\* at a difference of exactly 1.0 or more, and false whenever a or b is
\* missing, empty or non-numeric text.
C2_TrueIffBothNumericAndBelowOne ==
    npc = "done" =>
        LET d == Abs(pa.val - pb.val)
            missingOrEmpty(x) ==
                IsNa(x) \/ (x.t = "str" /\ Strip(x.s) = <<>>)
        IN  /\ res => pa.ok /\ pb.ok
            /\ (pa.ok /\ pb.ok /\ d < Scale) => res
            /\ (pa.ok /\ pb.ok /\ d > Scale) => ~res
            /\ (pa.ok /\ pb.ok /\ d = Scale) => (res <=> rnd < 0)
            /\ (pa.ok /\ pb.ok /\ d = Scale
                    /\ ExactDouble(pa.val) /\ ExactDouble(pb.val)) => ~res
            /\ (missingOrEmpty(a) \/ missingOrEmpty(b)) => ~res
            /\ (~pa.ok \/ ~pb.ok) => ~res

\* two numeric texts exactly 1.0 apart have been compared and found unequal
C2_Witness ==
    /\ npc = "done"
    /\ a.t = "str" /\ b.t = "str"
    /\ pa.ok /\ pb.ok
    /\ Abs(pa.val - pb.val) = Scale
    /\ ~res

\* C3: nearly_equal is symmetric: nearly_equal(a, b) = nearly_equal(b, a)
\* for all raw values.  (IEEE subtraction is antisymmetric, fb - fa is
\* -(fa - fb), so both calls see the same rounding.)
C3_Symmetric ==
    npc = "done" => res = nearly_equal(b, a, TOL, rnd)

\* a text and a different native number have been found nearly equal
C3_Witness ==
    /\ npc = "done"
    /\ a.t = "str" /\ b.t = "num"
    /\ pa.ok /\ pb.ok
    /\ pa.val < pb.val
    /\ res

\* the text the decimal-comma attempt and the decimal-point attempt hand to
\* float(), for a value that is not a native number
NCommaText(x) ==
    ReplaceChar(RemoveChars(RemoveChars(Strip(PyStr(x)), Cleaned), {"."}), ",", ".")

NPointText(x) == RemoveChars(RemoveChars(Strip(PyStr(x)), Cleaned), {","})

\* digits "." digits, as "1.234"
NGroupedShape(x) ==
    /\ x.t = "str"
    /\ \E i \in 2..(Len(x.s) - 1) :
           /\ x.s[i] = "."
           /\ \A j \in DOMAIN x.s : j # i => x.s[j] \in Digits

\* what the claim says of one value x and its parse p
NFirstSuccessWins(x, p) ==
    /\ (x.t \notin {"num", "nan"} /\ Strip(PyStr(x)) # <<>>) =>
           IF IsFloatLiteral(NCommaText(x))
           THEN p = [ok |-> TRUE, val |-> FloatVal(NCommaText(x))]
           ELSE IF IsFloatLiteral(NPointText(x))
           THEN p = [ok |-> TRUE, val |-> FloatVal(NPointText(x))]
           ELSE ~p.ok
    /\ NGroupedShape(x) =>
           p = [ok |-> TRUE, val |-> DigitsVal(RemoveChars(x.s, {"."})) * Scale]
    /\ IsNa(x) => ~p.ok
    /\ (x.t = "str" /\ Strip(x.s) = <<>>) => ~p.ok
    /\ x.t = "bool" => ~p.ok

\* C12: _try_parse_number takes the decimal-comma reading when it parses and
\* the decimal-point reading only when the first does not; when neither
\* parses the value is not numeric.  So "1.234" is 1234.0, and a missing
\* value, a text that is empty after trimming and a boolean are not numeric.
C12_DecimalCommaFirst ==
    npc = "done" =>
        /\ NFirstSuccessWins(a, pa)
        /\ NFirstSuccessWins(b, pb)
        /\ a = Text(<<"1", ".", "2", "3", "4">>) => pa.val = 1234 * Scale

\* "1.234" has been parsed as 1234.0, next to a boolean that is not numeric
C12_Witness ==
    /\ npc = "done"
    /\ a = Text(<<"1", ".", "2", "3", "4">>) /\ pa = [ok |-> TRUE, val |-> 1234 * Scale]
    /\ b = Bool(TRUE) /\ ~pb.ok

----------------------------------------------------------------------------
(* Claims about the contract list normaliser (SpecContract) *)

\* the sheet's column names after normalisation
CCols == [i \in 1..Len(cfile.header) |-> NormalizeColumn(cfile.header[i])]

CHas(c) == c \in Range(CCols)

CRequiredPresent ==
    CHas(ContractColsDE.system_id_col) /\ CHas(ContractColsDE.asset_col)

\* the cell of row r of the keyed table in column c
CCell(r, c) == ctable.rows[r][ColPos(ctable.columns, c)]

\* the positions of the compared columns of the keyed table: every column
\* but the mandatory identity columns and LineIndex
CComparedPos ==
    SelectSeq([i \in 1..Len(ctable.columns) |-> i],
              LAMBDA i : ctable.columns[i] \notin
                  {ContractColsDE.system_id_col, ContractColsDE.asset_col,
                   LineIndexName})

\* C4: key construction is injective within one table: every input row
\* receives exactly one Key, and no two rows share a Key unless all their
\* compared fields are identical.
C4_KeyInjective ==
    (cpc = "done" /\ CRequiredPresent) =>
        /\ Len(ctable.index) = Len(cfile.rows)
        /\ \A i, j \in 1..Len(ctable.index) :
              (i # j /\ ctable.index[i] = ctable.index[j]) =>
                  \A k \in 1..Len(CComparedPos) :
                      ctable.rows[i][CComparedPos[k]]
                          = ctable.rows[j][CComparedPos[k]]

\* the tie-break string of row r of the keyed table
CTieBreak(r) ==
    Join(<<"|">>, [k \in 1..Len(CComparedPos) |->
                      PyStr(ctable.rows[r][CComparedPos[k]])])

CSameGroup(p, q) ==
    /\ CCell(p, ContractColsDE.system_id_col) = CCell(q, ContractColsDE.system_id_col)
    /\ CCell(p, ContractColsDE.asset_col) = CCell(q, ContractColsDE.asset_col)

CFallbackCase ==
    /\ CRequiredPresent
    /\ ~CHas(ContractColsDE.payment_id_col)
    /\ ~CHas(ContractColsDE.option_id_col)

\* the keyed table of the sheet with its rows in the order perm
CPermuted(perm) ==
    prepare_contract_list(
        [header |-> cfile.header,
         rows |-> [i \in 1..Len(cfile.rows) |-> cfile.rows[perm[i]]]],
        ContractColsDE.system_id_col, ContractColsDE.asset_col,
        ContractColsDE.payment_id_col, ContractColsDE.option_id_col).df

\* C5: with neither optional identity column available, the rows of every
\* (systemId, assetId) group of n rows get the LineIndex values 1..n in
\* ascending order of the tie-break string, every Key is
\* systemId_assetId_LineIndex, every sheet row is in the table, and the keys
\* do not depend on the order of the rows in the sheet.
C5_FallbackLineIndex ==
    (cpc = "done" /\ CFallbackCase) =>
        LET n == Len(ctable.rows)
            line(r) == CCell(r, LineIndexName).n
            group(p) == {q \in 1..n : CSameGroup(p, q)}
            keyed(df) == {<<df.index[r], df.rows[r]>> : r \in 1..Len(df.rows)}
            unique(p) == \A q \in group(p) \ {p} : CTieBreak(q) # CTieBreak(p)
        IN  /\ n = Len(cfile.rows)
            /\ ctable.columns = Append(CCols, LineIndexName)
            /\ \E f \in Permutations(1..n) :
                  \A r \in 1..n :
                      \A i \in 1..Len(CCols) :
                          PyStr(ctable.rows[r][i]) = PyStr(cfile.rows[f[r]][i])
            /\ \A p \in 1..n :
                  /\ {line(q) : q \in group(p)} = 1..Cardinality(group(p))
                  /\ \A q \in group(p) :
                        line(p) < line(q) => ~StrLess(CTieBreak(q), CTieBreak(p))
                  /\ ctable.index[p] =
                        CCell(p, ContractColsDE.system_id_col).s \o <<"_">>
                            \o CCell(p, ContractColsDE.asset_col).s \o <<"_">>
                            \o NatStr(line(p))
            /\ \A perm \in Permutations(1..n) :
                  /\ Range(CPermuted(perm).index) = Range(ctable.index)
                  /\ \A p \in 1..n :
                        unique(p) =>
                            <<ctable.index[p], ctable.rows[p]>> \in keyed(CPermuted(perm))

\* two S1/A1 rows that stood in descending tie-break order in the sheet
\* have the keys S1_A1_1 and S1_A1_2
C5_Witness ==
    /\ cpc = "done"
    /\ CFallbackCase
    /\ Len(cfile.rows) = 2
    /\ Len(CCols) > 2
    /\ ctable.index = <<<<"S", "1", "_", "A", "1", "_", "1">>, <<"S", "1", "_", "A", "1", "_", "2">>>>
    /\ StrLess(CTieBreak(1), CTieBreak(2))
    /\ \A i \in 1..Len(CCols) :
          /\ PyStr(ctable.rows[1][i]) = PyStr(cfile.rows[2][i])
          /\ PyStr(ctable.rows[2][i]) = PyStr(cfile.rows[1][i])

\* C8: a mandatory identity column absent after normalisation: the missing
\* names and the full normalised column list are reported, the result is
\* the empty table (no rows, no data columns, no keys).
C8_MissingRequired ==
    cpc = "done" =>
        LET missing ==
                SelectSeq(<<ContractColsDE.system_id_col, ContractColsDE.asset_col>>,
                          LAMBDA c : ~CHas(c))
        IN  IF missing # <<>>
            THEN /\ Len(cmsgs) = 1
                 /\ cmsgs[1].kind = "error"
                 /\ cmsgs[1].list = missing
                 /\ cmsgs[1].columns = CCols
                 /\ ctable.rows = <<>>
                 /\ ctable.columns = <<>>
                 /\ ctable.index = <<>>
            ELSE \A i \in 1..Len(cmsgs) : cmsgs[i].kind # "error"

\* a sheet with rows and without the system identifier has been answered
\* with the error
C8_Witness ==
    /\ cpc = "done"
    /\ cfile.rows # <<>>
    /\ ~CHas(ContractColsDE.system_id_col)
    /\ CHas(ContractColsDE.asset_col)
    /\ Len(cmsgs) = 1 /\ cmsgs[1].kind = "error"
    /\ ctable = EmptyFrame

CMissingOptional ==
    SelectSeq(<<ContractColsDE.payment_id_col, ContractColsDE.option_id_col>>,
              LAMBDA c : ~CHas(c))

COnlyWarning ==
    /\ Len(cmsgs) = 1
    /\ cmsgs[1].kind = "warning"
    /\ cmsgs[1].list = CMissingOptional

\* every key is systemId_assetId_LineIndex
CFallbackScheme ==
    /\ LineIndexName \in Range(ctable.columns)
    /\ \A r \in 1..Len(ctable.rows) :
          ctable.index[r] =
              CCell(r, ContractColsDE.system_id_col).s \o <<"_">>
                  \o CCell(r, ContractColsDE.asset_col).s \o <<"_">>
                  \o PyStr(CCell(r, LineIndexName))

\* every key is systemId_assetId_<c>
CIdentityScheme(c) ==
    /\ LineIndexName \notin Range(ctable.columns)
    /\ \A r \in 1..Len(ctable.rows) :
          ctable.index[r] =
              PyStr(CCell(r, ContractColsDE.system_id_col)) \o <<"_">>
                  \o PyStr(CCell(r, ContractColsDE.asset_col)) \o <<"_">>
                  \o PyStr(CCell(r, c))

\* C9 as stated, for a sheet that has the mandatory identity columns: a
\* missing optional identity column gives a warning only (no error, no empty
\* result) and the fallback key scheme.
C9_MissingOptionalFallback ==
    (cpc = "done" /\ CRequiredPresent /\ CMissingOptional # <<>>) =>
        /\ COnlyWarning
        /\ Len(ctable.rows) = Len(cfile.rows)
        /\ CFallbackScheme

\* C9 (amended): with the mandatory identity columns present, a missing
\* optional identity column gives a warning only and one keyed row per sheet
\* row; the fallback key scheme is used when both optional columns are
\* missing, and the identity join with the other optional column when only
\* one is missing.
C9_MissingOptionalWarning ==
    (cpc = "done" /\ CRequiredPresent /\ CMissingOptional # <<>>) =>
        /\ COnlyWarning
        /\ Len(ctable.rows) = Len(cfile.rows)
        /\ Len(ctable.index) = Len(cfile.rows)
        /\ IF Len(CMissingOptional) = 2 THEN CFallbackScheme
           ELSE IF CHas(ContractColsDE.option_id_col)
                THEN CIdentityScheme(ContractColsDE.option_id_col)
                ELSE CIdentityScheme(ContractColsDE.payment_id_col)

\* a sheet without the payment identifier and with the option identifier
\* has been keyed by the identity join, with a warning
C9_Witness ==
    /\ cpc = "done"
    /\ CRequiredPresent
    /\ CMissingOptional = <<ContractColsDE.payment_id_col>>
    /\ COnlyWarning
    /\ ctable.index = <<<<"S", "1", "_", "A", "1", "_", "O", "1">>>>

----------------------------------------------------------------------------
(* Claims about the comparison (SpecCompare) *)

RReported(key) == \E i \in 1..Len(df_diff) : df_diff[i].key = key

RBoth(key) == InIndex(df_test, key) /\ InIndex(df_prod, key)

RKeys == Range(df_test.index) \cup Range(df_prod.index)

RInBoth == Range(df_test.columns) \cap Range(df_prod.columns)

\* the compared columns: in both tables, no identity, key or line index
RComparedCols == RInBoth \ CompareExcluded(mode)

\* a test cell and a prod cell agree: both missing, nearly equal, or equal
RAgree(vt, vp) ==
    \/ IsNa(vt) /\ IsNa(vp)
    \/ \E r \in RoundingsOf(vt, vp) : nearly_equal(vt, vp, TOL, r)
    \/ ~IsNa(vt) /\ ~IsNa(vp) /\ ~PyNotEqual(vt, vp)

\* every cell the test table holds under key agrees, column by column, with
\* every cell the prod table holds under key
RKeyAgrees(key) ==
    \A c \in RComparedCols :
        \A i \in DOMAIN Loc(df_test, key, c), j \in DOMAIN Loc(df_prod, key, c) :
            RAgree(Loc(df_test, key, c)[i], Loc(df_prod, key, c)[j])

\* some key labels more than one row of a table
RDuplicated(df) == \E i, j \in DOMAIN df.index : i # j /\ df.index[i] = df.index[j]

\* C6: the final diff report leaves out exactly the keys of both tables
\* whose compared columns all agree (missing on both sides, nearly equal or
\* equal); every other key of the union has a row in the report.
C6_ReportExcludesExactlyAgreeingKeys ==
    pc = "done" =>
        \A key \in RKeys : ~RReported(key) <=> (RBoth(key) /\ RKeyAgrees(key))

RIdentSource(key) == IF InIndex(df_test, key) THEN df_test ELSE df_prod

RIdentColumn(name) == IF name = LabelsDE.line_index THEN LineIndexName ELSE name

RIdentRequired ==
    IF mode = "closings"
    THEN {ClosingColsDE.id_col, ClosingColsDE.asset_col}
    ELSE {ContractColsDE.system_id_col, ContractColsDE.asset_col}

RNotCompared(key) == \A p \in compared : p[1] # key

\* C7: a key absent from the test table gets the status "only in prod", a
\* key absent from the prod table the status "only in test", in both cases
\* without any column comparison for the key, and the row stays in the
\* report; the identity fields of every row come from the test table when
\* it holds the key and from the prod table otherwise.
C7_OneSidedKeys ==
    \A i \in 1..Len(results) :
        LET row == results[i]
            key == all_keys[i]
        IN  /\ row.key = key
            /\ ~InIndex(df_test, key) =>
                   /\ row.label = LabelsDE.only_in_prod
                   /\ row.diffs = <<>>
                   /\ RNotCompared(key)
                   /\ pc = "done" => RReported(key)
            /\ ~InIndex(df_prod, key) =>
                   /\ row.label = LabelsDE.only_in_test
                   /\ row.diffs = <<>>
                   /\ RNotCompared(key)
                   /\ pc = "done" => RReported(key)
            /\ RIdentRequired \subseteq {row.ident[k].name : k \in DOMAIN row.ident}
            /\ \A k \in DOMAIN row.ident :
                   row.ident[k].value =
                       Loc(RIdentSource(key), key, RIdentColumn(row.ident[k].name))

\* a finished comparison with a key of the prod table alone and a key of the
\* test table alone, each reported with its status and its own identity
C7_Witness ==
    /\ pc = "done"
    /\ mode = "contracts"
    /\ \E i, j \in 1..Len(df_diff) :
           /\ ~InIndex(df_test, df_diff[i].key)
           /\ df_diff[i].label = LabelsDE.only_in_prod
           /\ df_diff[i].ident[1].value = <<Text(<<"S", "1">>)>>
           /\ ~InIndex(df_prod, df_diff[j].key)
           /\ df_diff[j].label = LabelsDE.only_in_test
           /\ df_diff[j].ident[1].value = <<Text(<<"S", "2">>)>>
    /\ compared = {}

ROnlyInTest ==
    Sorted((Range(df_test.columns) \ Range(df_prod.columns)) \ CheckExcluded(mode))

ROnlyInProd ==
    Sorted((Range(df_prod.columns) \ Range(df_test.columns)) \ CheckExcluded(mode))

\* the lists shown under the heading text
RListed(text) == {msgs[i].list : i \in {k \in DOMAIN msgs : msgs[k].text = text}}

\* C10: a difference between the column sets of the two tables stops
\* nothing: the column check lists the columns of the test table alone and
\* those of the prod table alone as warnings, shows its success message
\* exactly when both lists are empty, and the loop compares and records
\* only columns of both tables.  A run that has both tables ends early only
\* on a key that labels several rows or on an empty key universe.
C10_ColumnMismatchNonFatal ==
    /\ pc \in {"loop", "done"} =>
           /\ RListed(LabelsDE.cols_only_test) =
                  IF ROnlyInTest # <<>> THEN {ROnlyInTest} ELSE {}
           /\ RListed(LabelsDE.cols_only_prod) =
                  IF ROnlyInProd # <<>> THEN {ROnlyInProd} ELSE {}
           /\ (RListed(LabelsDE.cols_match) # {}) <=>
                  (ROnlyInTest = <<>> /\ ROnlyInProd = <<>>)
           /\ \A i \in DOMAIN msgs :
                  msgs[i].text \in {LabelsDE.cols_only_test, LabelsDE.cols_only_prod}
                      => msgs[i].kind = "warning"
    /\ \A p \in compared : p[2] \in RInBoth
    /\ \A i \in DOMAIN results :
           \A k \in DOMAIN results[i].diffs : results[i].diffs[k].col \in RInBoth
    /\ (pc = "crashed" /\ df_test # EmptyFrame /\ df_prod # EmptyFrame) =>
           \/ error = "KeyError" /\ all_keys = <<>>
           \/ error = "ValueError" /\ (RDuplicated(df_test) \/ RDuplicated(df_prod))

\* a finished comparison of two tables with different column sets: the
\* extra column of the prod table is listed, the shared amount column is
\* compared and its difference is in the report
C10_Witness ==
    /\ pc = "done"
    /\ ROnlyInTest = <<>> /\ ROnlyInProd # <<>>
    /\ Msg("warning", LabelsDE.cols_only_prod, ROnlyInProd, <<>>) \in Range(msgs)
    /\ \E i \in DOMAIN df_diff :
           /\ df_diff[i].diffs # <<>>
           /\ \A k \in DOMAIN df_diff[i].diffs : df_diff[i].diffs[k].col \in RInBoth

----------------------------------------------------------------------------
(* Claims about the memoised normalisers (SpecCache) *)

KNoDuplicates(log) == \A i, j \in DOMAIN log : i # j => log[i] # log[j]

KCall == [fn |-> ret.fn, file |-> ret.file, cols |-> ret.cols]

\* every stored entry is still stored, unchanged, after the step
KEntriesKept ==
    \A fn \in DOMAIN cache :
        \A k \in DOMAIN cache[fn] :
            k \in DOMAIN cache'[fn] /\ cache'[fn][k] = cache[fn][k]

----------------------------------------------------------------------------
(* Claims about the header reconstruction (SpecHeader) *)

\* the cell of row at position i or, when that is missing, the nearest cell
\* to its left that is not (the missing cell itself when there is none)
HNearestLeft(row, i) ==
    LET js == {j \in 1..i : ~IsNa(row[j])}
    IN  IF js = {} THEN row[i] ELSE row[CHOOSE j \in js : \A k \in js : k <= j]

HLead == 1..RawHeaderCols

\* C13: each of the first 9 column names is the raw cell of header row 1
\* (physical row 1) at its position, untouched: not forward-filled, not
\* trimmed, not composed with rows 2 and 3.
C13_FirstNineRaw ==
    hpc = "done" => \A i \in HLead : hcols[i] = df_raw[2][i]

\* C13 (amended): each of the first 9 column names is the cell of header
\* row 1 at its position after forward-filling: the raw cell when it is not
\* missing, else the nearest cell to its left that is not; it is not
\* trimmed and not composed with rows 2 and 3.
C13_FirstNineFilled ==
    hpc = "done" =>
        \A i \in HLead :
            /\ hcols[i] = HNearestLeft(df_raw[2], i)
            /\ ~IsNa(df_raw[2][i]) => hcols[i] = df_raw[2][i]

\* a padded label has been kept as it is, and a missing cell among the
\* first nine has taken the label to its left
C13_Witness ==
    /\ hpc = "done"
    /\ df_raw[2][2] = Text(<<" ", "N", " ", " ", "n", " ">>) /\ hcols[2] = Text(<<" ", "N", " ", " ", "n", " ">>)
    /\ df_raw[2][9] = NaN /\ hcols[9] = Text(<<"c", "8">>)

HComposite(i) ==
    LET D == Strip(CollapseWs(PyStr(HNearestLeft(df_raw[2], i))))
        A == Strip(PyStr(HNearestLeft(df_raw[3], i)))
        S == Strip(PyStr(df_raw[4][i]))
    IN  Text(D \o <<" ", "-", " ">> \o A \o <<"_", "I", "F", "R", "S", "1", "6", " ", "-", " ">> \o S)

\* C14: each column name from position 9 on is "<D> - <A>_IFRS16 - <S>": D
\* is header row 1 forward-filled, whitespace runs collapsed, trimmed; A is
\* header row 2 forward-filled (within its own row), trimmed; S is header
\* row 3, trimmed and not forward-filled.  The data rows are the physical
\* rows from index 4 on.
C14_CompositeNames ==
    hpc = "done" =>
        /\ Len(hcols) = Len(df_raw[2])
        /\ \A i \in (RawHeaderCols + 1)..Len(hcols) : hcols[i] = HComposite(i)
        /\ Len(hrows) = Len(df_raw) - 4
        /\ \A r \in 1..Len(hrows) : hrows[r] = df_raw[4 + r]

\* the last column has taken its description and its account number from
\* the left, each within its own row, and kept its missing third header
\* cell; the one data row is physical row 4
C14_Witness ==
    /\ hpc = "done"
    /\ Len(df_raw) = 5
    /\ df_raw[2][10] = Text(<<"Z", " ", " ", "i", " ">>) /\ df_raw[2][11] = NaN
    /\ df_raw[3][10] = Num(Scale) /\ df_raw[3][11] = NaN
    /\ df_raw[4][10] = Text(<<" ", "S">>) /\ df_raw[4][11] = NaN
    /\ hcols[10] = Text(<<"Z", " ", "i", " ", "-", " ", "1", ".", "0", "_", "I", "F", "R", "S", "1", "6", " ", "-", " ", "S">>)
    /\ hcols[11] = Text(<<"Z", " ", "i", " ", "-", " ", "1", ".", "0", "_", "I", "F", "R", "S", "1", "6", " ", "-", " ", "n", "a", "n">>)
    /\ hrows = <<df_raw[5]>>

----------------------------------------------------------------------------
(* Claims about the column name normalisation (SpecColumns) *)

\* the column names after step 1: those of the keyed table or, when the
\* call ended on the missing-column error, those the error lists
ONames ==
    IF ctable.columns # <<>>
    THEN SubSeq(ctable.columns, 1, Len(cfile.header))
    ELSE cmsgs[1].columns

OQuotes == {"\"", "'"}

OClean(name) ==
    /\ \A i \in DOMAIN name : name[i] \notin OQuotes
    /\ name # <<>> => name[1] \notin Whitespace /\ name[Len(name)] \notin Whitespace

ORecognised == \A i \in DOMAIN cmsgs : cmsgs[i].kind # "error"

\* C15: after step 1 of prepare_contract_list no column name has leading
\* or trailing whitespace or a quote character; a header that is an
\* identity column name wrapped in whitespace and quotes, in any nesting,
\* is recognised as that column; normalising a normalised name changes
\* nothing.
C15_NormalizedColumnNames ==
    cpc = "done" =>
        /\ \A i \in DOMAIN ONames : OClean(ONames[i])
        /\ ORecognised
        /\ ONames[1] = ContractColsDE.system_id_col
        /\ \A i \in DOMAIN ONames : NormalizeColumn(ONames[i]) = ONames[i]

----------------------------------------------------------------------------
(* Claims about the two tabs (SpecTabs) *)

\* the English text for a German label or field name
TLabel(label) ==
    CASE label = LabelsDE.only_in_prod -> LabelsEN.only_in_prod
      [] label = LabelsDE.only_in_test -> LabelsEN.only_in_test
      [] label = LabelsDE.none -> LabelsEN.none
      [] OTHER -> label

TName(name) ==
    IF name = LabelsDE.line_index THEN LabelsEN.line_index ELSE EnglishName(name)

\* a German report row with its labels and identity names translated
TRow(row) ==
    [key |-> row.key,
     ident |-> [k \in DOMAIN row.ident |->
                   [name |-> TName(row.ident[k].name),
                    value |-> row.ident[k].value]],
     label |-> TLabel(row.label),
     diffs |-> [k \in DOMAIN row.diffs |->
                   [col |-> EnglishName(row.diffs[k].col),
                    test |-> row.diffs[k].test,
                    prod |-> row.diffs[k].prod]]]

\* C16: on the same two sheets (identity column names of the respective
\* tab) the German and the English comparison, closings and contract
\* lists, end the same way and give the same rows for the same keys in the
\* same order with the same recorded differences, in the loop and in the
\* final report; only the labels are translated.
C16_TabsEquivalent ==
    /\ en.pc = pc
    /\ en.error = error
    /\ en.all_keys = all_keys
    /\ en.results = [i \in DOMAIN results |-> TRow(results[i])]
    /\ en.df_diff = [i \in DOMAIN df_diff |-> TRow(df_diff[i])]

\* both tabs have finished a contract list comparison whose report holds a
\* row for a key of one side only and a row with a recorded difference,
\* each under the labels of its tab
C16_Witness ==
    /\ pc = "done" /\ en.pc = "done"
    /\ mode = "contracts"
    /\ Len(df_diff) = 2 /\ Len(en.df_diff) = 2
    /\ \E i, j \in 1..2 :
           /\ df_diff[i].label = LabelsDE.only_in_test
           /\ en.df_diff[i].label = LabelsEN.only_in_test
           /\ en.df_diff[i].ident[1].name = ContractColsEN.system_id_col
           /\ df_diff[j].diffs # <<>>
           /\ en.df_diff[j].diffs = df_diff[j].diffs

=============================================================================
